---- MODULE Spec2Model ----
(***************************************************************************)
(* Model of the reference normalisation and classification engine of      *)
(* src/app.py (Lampiran G Unit OSC).                                       *)
(*                                                                         *)
(* Text is modelled as it is in the program: a string is a sequence of     *)
(* one-character strings, and every regular expression of the source is    *)
(* an operator that scans that sequence.                                   *)
(*                                                                         *)
(* Five specifications share the module:                                   *)
(*   SpecRef   - the pure functions on one reference string                *)
(*   SpecNotes - the same on a reference with notes written after it       *)
(*   SpecText  - tindakan_ut on one outstanding-reviewer text              *)
(*   SpecMatch - agenda parsing and the suppression decision for a record  *)
(*   Spec      - the generate action: parse, parallel read, classify       *)
(***************************************************************************)
EXTENDS Integers, Sequences, FiniteSets, TLC

VARIABLES
    r_pc,       \* SpecRef, SpecNotes: "edit" while the reference is being varied, then "done"
    r_orig,     \* SpecRef: the reference as first drawn
    r_raw,      \* SpecRef: the reference after the edits
    r_sheet,    \* SpecRef: the origin sheet of the reference
    r_edits,    \* SpecRef: number of edits applied so far; SpecNotes: of notes
    r_res,      \* SpecRef: the results of the functions applied to r_orig / r_raw
    m_pc,       \* SpecMatch: "doc" while the agenda text is collected, "parsed", "decided"
    m_doc,      \* SpecMatch: the agenda text, a sequence of lines
    m_chunks,   \* SpecMatch: number of paragraphs collected
    m_agenda,   \* SpecMatch: <<>> (no index) or <<AgendaIndex>>
    m_enabled,  \* SpecMatch: agenda_enabled
    m_row,      \* SpecMatch: <<>> or <<the enriched record under decision>>
    m_kept,     \* SpecMatch: the record passed the agenda filter
    m_fb,       \* SpecMatch: _agenda_fallback_match(record, index)
    g_pc,       \* Spec: the position of the generate action
    ui,         \* Spec: the values of the widgets
    running,    \* Spec: st.session_state.running
    agenda_index, \* Spec: <<>> (None) or <<AgendaIndex>>
    tasks,      \* Spec: the submitted read tasks, in the order of submission
    merged,     \* Spec: the tasks whose result is appended to the rows
    g_rows,     \* Spec: rows
    g_cats,     \* Spec: <<cat1, cat2, cat3, cat4, cat5>>
    t_pc,       \* SpecText: "draft" while the cell text is typed, then "mapped"
    t_parts,    \* SpecText: number of parts typed so far
    t_text,     \* SpecText: the outstanding-reviewer cell text
    t_out       \* SpecText: tindakan_ut(t_text)

ref_vars == <<r_pc, r_orig, r_raw, r_sheet, r_edits, r_res>>
match_vars == <<m_pc, m_doc, m_chunks, m_agenda, m_enabled, m_row, m_kept, m_fb>>
gen_vars == <<g_pc, ui, running, agenda_index, tasks, merged, g_rows, g_cats>>
text_vars == <<t_pc, t_parts, t_text, t_out>>
vars == <<ref_vars, match_vars, gen_vars, text_vars>>

----------------------------------------------------------------------------
(* Characters *)

LowerLetters == <<"a","b","c","d","e","f","g","h","i","j","k","l","m",
                  "n","o","p","q","r","s","t","u","v","w","x","y","z">>
UpperLetters == <<"A","B","C","D","E","F","G","H","I","J","K","L","M",
                  "N","O","P","Q","R","S","T","U","V","W","X","Y","Z">>
LowerSet == {LowerLetters[i] : i \in 1..26}
UpperSet == {UpperLetters[i] : i \in 1..26}
Digits == {"0","1","2","3","4","5","6","7","8","9"}
\* Python's \s on str (ASCII part)
WS == {" ", "\t", "\n", "\r", "\f"}

UpMap == [c \in LowerSet |-> UpperLetters[CHOOSE i \in 1..26 : LowerLetters[i] = c]]
LowMap == [c \in UpperSet |-> LowerLetters[CHOOSE i \in 1..26 : UpperLetters[i] = c]]

ToUpperC(c) == IF c \in LowerSet THEN UpMap[c] ELSE c
ToLowerC(c) == IF c \in UpperSet THEN LowMap[c] ELSE c

\* str.upper() / str.lower()
upper(s) == [i \in DOMAIN s |-> ToUpperC(s[i])]
lower(s) == [i \in DOMAIN s |-> ToLowerC(s[i])]

\* the smallest element of a non-empty set of integers
Min(S) == CHOOSE x \in S : \A y \in S : x <= y
Max(S) == CHOOSE x \in S : \A y \in S : x >= y

\* number of consecutive characters of `set` in s from position i on
RunLen(s, i, set) ==
    IF i > Len(s) THEN 0
    ELSE (CHOOSE j \in i..(Len(s) + 1) :
              /\ (j = Len(s) + 1 \/ s[j] \notin set)
              /\ \A k \in i..(j - 1) : s[k] \in set) - i

\* position after the run of whitespace that starts at i
SkipWS(s, i) == i + RunLen(s, i, WS)

\* re.sub(r"[<set>]", "", s)
RemoveChars(s, set) == SelectSeq(s, LAMBDA c : c \notin set)

\* s[i:] and s[:i] of Python for 1-based i (s[i..])
From(s, i) == SubSeq(s, i, Len(s))
Upto(s, i) == SubSeq(s, 1, i)

\* sub occurs in s at position i
OccursAt(sub, s, i) ==
    /\ i >= 1
    /\ i + Len(sub) - 1 <= Len(s)
    /\ \A k \in 1..Len(sub) : s[i + k - 1] = sub[k]

\* Python's `sub in s`
Contains(sub, s) == \E i \in 1..(Len(s) + 1) : OccursAt(sub, s, i)

\* sets of 1..n as a sequence of elements, for sequences as sets
Range(s) == {s[i] : i \in DOMAIN s}

\* re.split(r"[<seps>]+", s): the tokens between runs of separators
SplitAcc(s, i, cur, seps) ==
    LET cuts == {k \in i..Len(s) : s[k] \in seps}
        \* the n-th separator from position i on; the ends of s beyond them
        cut(n) == IF n = 0 THEN i - 1
                  ELSE IF n > Cardinality(cuts) THEN Len(s) + 1
                  ELSE CHOOSE k \in cuts : Cardinality({j \in cuts : j <= k}) = n
    IN  [n \in 1..(Cardinality(cuts) + 1) |->
            (IF n = 1 THEN cur ELSE <<>>) \o SubSeq(s, cut(n - 1) + 1, cut(n) - 1)]

Split(s, seps) == SelectSeq(SplitAcc(s, 1, <<>>, seps), LAMBDA t : t /= <<>>)

SL == <<"/">>
DASH == <<"-">>
\* <prefix>/<yy>/<series>/<tail>
MkHead(prefix, yy, series, tail) == prefix \o SL \o yy \o SL \o series \o SL \o tail
\* <head>-<suffix>
MkRef(head, suffix) == head \o DASH \o suffix
\* the characters of s that are not in `set` (a negated character class)
AnyBut(set, s) == Range(s) \ set

----------------------------------------------------------------------------
(* Vocabulary: src/app.py lines 29-77 *)

cPKM == <<"P", "K", "M">>
cTKR_GUNA == <<"T", "K", "R", "-", "G", "U", "N", "A">>
cTKR == <<"T", "K", "R">>
c124A == <<"1", "2", "4", "A">>
c204D == <<"2", "0", "4", "D">>
cPS == <<"P", "S">>
cSB == <<"S", "B">>
cCT == <<"C", "T">>
cKTUP == <<"K", "T", "U", "P">>
cLJUP == <<"L", "J", "U", "P">>
cJP == <<"J", "P">>
cPL == <<"P", "L">>
cBGN == <<"B", "G", "N">>
cEVCB == <<"E", "V", "C", "B">>
cEV == <<"E", "V">>
cTELCO == <<"T", "E", "L", "C", "O">>
cSERENTAK == <<"S", "E", "R", "E", "N", "T", "A", "K">>
cPKM_TUKARGUNA == <<"P", "K", "M", " ", "T", "U", "K", "A", "R", "G", "U", "N", "A">>
cBGN_EVCB == <<"B", "G", "N", " ", "E", "V", "C", "B">>
cMBSP == <<"M", "B", "S", "P">>
cMBPS == <<"M", "B", "P", "S">>
cMPSP == <<"M", "P", "S", "P">>

dSPU == <<"S", "P", "U">>
dSPS == <<"S", "P", "S">>
dSPT == <<"S", "P", "T">>

ALLOWED_SHEETS ==
    {cSERENTAK, cPKM, cTKR_GUNA, cTKR, cPKM_TUKARGUNA, cBGN, cBGN_EVCB, cEVCB,
     cEV, cTELCO, cPS, cSB, cCT, cPL, cKTUP, cJP, cLJUP}

AGENDA_FILTER_SHEETS ==
    {cSERENTAK, cPKM, cTKR_GUNA, cPKM_TUKARGUNA, cBGN, cTELCO, cEVCB, cBGN_EVCB, cEV}

KNOWN_CODES ==
    <<cPKM, cTKR_GUNA, cTKR, c124A, c204D, cPS, cSB, cCT,
      cKTUP, cLJUP, cJP, cPL, cBGN, cEVCB, cEV, cTELCO>>

PB_CODES == {cPKM, cTKR_GUNA, cTKR, c124A, c204D, cPS, cSB, cCT}
KEJ_CODES == {cKTUP, cLJUP, cJP}
JL_CODES == {cPL}

----------------------------------------------------------------------------
(* Identifier normaliser *)

\* re.sub(r"[\s\r\n\t]+", "", s)
StripAllWS(s) == RemoveChars(s, WS)

\* length matched by ^w1\.?w2\.?w3\.?w4 (IGNORECASE) from position i, letter k
\* of w on; 0 when the pattern does not match
RECURSIVE DottedFrom(_, _, _, _)
DottedFrom(s, i, w, k) ==
    IF i > Len(s) \/ ToUpperC(s[i]) /= w[k] THEN 0
    ELSE IF k = Len(w) THEN i
    ELSE IF i + 1 <= Len(s) /\ s[i + 1] = "." THEN DottedFrom(s, i + 2, w, k + 1)
    ELSE DottedFrom(s, i + 1, w, k + 1)

\* re.sub(r"^M\.?B\.?S\.?P", "MBSP", s, flags=re.IGNORECASE) for the word w
SubDottedPrefix(s, w) ==
    LET n == DottedFrom(s, 1, w, 1)
    IN  IF n = 0 THEN s ELSE cMBSP \o From(s, n + 1)

\* re.sub(r"^(MBPS|MPSP)", "MBSP", s, flags=re.IGNORECASE)
SubLegacyPrefix(s) ==
    IF Len(s) >= 4 /\ upper(Upto(s, 4)) \in {cMBPS, cMPSP}
    THEN cMBSP \o From(s, 5)
    ELSE s

normalize_osc_prefix(s) ==
    IF s = <<>> THEN <<>>
    ELSE LET s2 == StripAllWS(s)
             s3 == SubLegacyPrefix(s2)
             s4 == SubDottedPrefix(s3, cMBSP)
             s5 == SubDottedPrefix(s4, cMBPS)
         IN  upper(s5)

SepPunct == {"-", "/", "\\", "(", ")", "[", "]", "{", "}", "+", ".", ",", ":", ";"}

osc_norm(x) ==
    LET s1 == normalize_osc_prefix(x)
        s2 == lower(s1)
        s3 == StripAllWS(s2)
    IN  RemoveChars(s3, SepPunct)

----------------------------------------------------------------------------
(* Sheet names *)

\* re.sub(r"\s+", " ", s): runs of whitespace collapse to one blank
RECURSIVE CollapseWS(_, _)
CollapseWS(s, i) ==
    IF i > Len(s) THEN <<>>
    ELSE IF s[i] \in WS
         THEN IF i > 1 /\ s[i - 1] \in WS THEN CollapseWS(s, i + 1)
              ELSE <<" ">> \o CollapseWS(s, i + 1)
         ELSE <<s[i]>> \o CollapseWS(s, i + 1)

RECURSIVE LStrip(_)
LStrip(s) == IF s /= <<>> /\ Head(s) \in WS THEN LStrip(Tail(s)) ELSE s
RECURSIVE RStrip(_)
RStrip(s) == IF s /= <<>> /\ s[Len(s)] \in WS THEN RStrip(Upto(s, Len(s) - 1)) ELSE s
\* str.strip()
Strip(s) == RStrip(LStrip(s))

sheet_norm(s) == upper(CollapseWS(Strip(s), 1))

\* s.replace("_", " ")
UnderscoreToBlank(s) == [i \in DOMAIN s |-> IF s[i] = "_" THEN " " ELSE s[i]]

\* the alias table applied to the cleaned name s
SheetAlias(s) ==
        IF s = <<"E", " ", "V">> THEN cEV
        ELSE IF s \in {<<"T", "G">>,
                       <<"T", "U", "K", "A", "R", "G", "U", "N", "A">>,
                       <<"T", "U", "K", "A", "R", " ", "G", "U", "N", "A">>}
             THEN cTKR_GUNA
        ELSE IF s \in {<<"T", "K", "R", " ", "G", "U", "N", "A">>, cTKR_GUNA}
             THEN cTKR_GUNA
        ELSE IF s \in {<<"P", "K", "M", " ", "T", "U", "K", "A", "R", " ", "G", "U", "N", "A">>,
                       cPKM_TUKARGUNA}
             THEN cPKM_TUKARGUNA
        ELSE IF s \in {<<"B", "G", "N", "-", "E", "V", "C", "B">>, cBGN_EVCB}
             THEN cBGN_EVCB
        ELSE s

canonical_sheet_name(sheet) ==
    SheetAlias(Strip(CollapseWS(UnderscoreToBlank(sheet_norm(sheet)), 1)))

\* the codes the upper-cased sheet name s stands for
ImpliedBy(s) ==
        (IF Contains(cPKM, s) THEN {cPKM} ELSE {})
        \cup (IF Contains(cTKR_GUNA, s) \/ s = <<"T", "K", "R", " ", "G", "U", "N", "A">>
                 \/ s = <<"T", "G">>
              THEN {cTKR_GUNA}
              ELSE IF s = cTKR THEN {cTKR} ELSE {})
        \cup (IF Contains(cBGN, s) THEN {cBGN} ELSE {})
        \cup (IF Contains(cEVCB, s) THEN {cEVCB} ELSE {})
        \cup (IF s = cEV THEN {cEV} ELSE {})
        \cup (IF Contains(cTELCO, s) THEN {cTELCO} ELSE {})
        \cup (IF s = cPS THEN {cPS} ELSE {})
        \cup (IF s = cSB THEN {cSB} ELSE {})
        \cup (IF s = cCT THEN {cCT} ELSE {})
        \cup (IF s = cPL THEN {cPL} ELSE {})
        \cup (IF s = cKTUP THEN {cKTUP} ELSE {})
        \cup (IF s = cJP THEN {cJP} ELSE {})
        \cup (IF s = cLJUP THEN {cLJUP} ELSE {})

sheet_implied_codes(sheet_u) == ImpliedBy(upper(sheet_u))

----------------------------------------------------------------------------
(* Code and parent extractor *)

CodeSeps == WS \cup {"+", "-", "/", "\\", "(", ")", ","}

\* the codes the canonical sheet name sn adds
SheetCodes(sn) ==
    sheet_implied_codes(sn) \cup (IF sn = cBGN_EVCB THEN {cBGN, cEVCB} ELSE {})

extract_codes(fail_no, sheet_name) ==
    LET tokens == Split(upper(normalize_osc_prefix(fail_no)), CodeSeps)
    IN  (Range(tokens) \cap Range(KNOWN_CODES))
            \cup SheetCodes(canonical_sheet_name(sheet_name))

----------------------------------------------------------------------------
(* Cell cleaning and the display form of a reference *)

wNan == <<"n", "a", "n">>
\* the ASCII dash; the source also lists the en and em dashes
DashChars == {"-"}
BlankWords == {<<"-">>, <<"n", "/", "a">>, <<"n", "a">>, <<"n", "i", "l">>,
               <<"t", "i", "a", "d", "a">>}

is_nan(v) == lower(Strip(v)) = wNan

clean_fail_no(v) == IF is_nan(v) THEN <<>> ELSE Strip(StripAllWS(v))

clean_str(v) == IF is_nan(v) THEN <<>> ELSE Strip(v)

is_blankish_text(v) ==
    LET s == Strip(v)
    IN  \/ is_nan(v)
        \/ s = <<>>
        \/ lower(s) \in BlankWords
        \/ \A i \in 1..Len(s) : s[i] \in DashChars \cup WS

\* re.sub(r"[ \t]+", " ", s)
RECURSIVE CollapseBlanks(_, _, _)
CollapseBlanks(s, i, set) ==
    IF i > Len(s) THEN <<>>
    ELSE IF s[i] \in set
         THEN <<" ">> \o CollapseBlanks(s, i + RunLen(s, i, set), set)
         ELSE <<s[i]>> \o CollapseBlanks(s, i + 1, set)

\* re.sub(r"\n{3,}", "\n\n", s)
RECURSIVE CollapseNewlines(_, _)
CollapseNewlines(s, i) ==
    IF i > Len(s) THEN <<>>
    ELSE LET n == RunLen(s, i, {"\n"})
         IN  IF n >= 3 THEN <<"\n", "\n">> \o CollapseNewlines(s, i + n)
             ELSE <<s[i]>> \o CollapseNewlines(s, i + 1)

\* re.sub(r" {2,}", " ", s)
RECURSIVE CollapseSpaces(_, _)
CollapseSpaces(s, i) ==
    IF i > Len(s) THEN <<>>
    ELSE LET n == RunLen(s, i, {" "})
         IN  IF n >= 2 THEN <<" ">> \o CollapseSpaces(s, i + n)
             ELSE <<s[i]>> \o CollapseSpaces(s, i + 1)

\* re.sub(r"\s*<sep>\s*", repl, s)
RECURSIVE TidyAround(_, _, _, _)
TidyAround(s, i, sep, repl) ==
    IF i > Len(s) THEN <<>>
    ELSE LET j == SkipWS(s, i)
         IN  IF j <= Len(s) /\ s[j] = sep
             THEN repl \o TidyAround(s, SkipWS(s, j + 1), sep, repl)
             ELSE <<s[i]>> \o TidyAround(s, i + 1, sep, repl)

\* s.replace("\r", "\n")
ReturnToNewline(s) == [i \in DOMAIN s |-> IF s[i] = "\r" THEN "\n" ELSE s[i]]

\* the three prefix substitutions, on the stripped text, without upper-casing
DisplayPrefix(s) == SubDottedPrefix(SubDottedPrefix(SubLegacyPrefix(s), cMBSP), cMBPS)

\* blanks and newlines collapsed, then stripped
DisplayLines(s) ==
    Strip(CollapseNewlines(CollapseBlanks(ReturnToNewline(s), 1, {" ", "\t"}), 1))

\* the separators "/", "-" and "+" tidied in this order
DisplaySeps(s) ==
    TidyAround(TidyAround(TidyAround(s, 1, "/", <<"/">>), 1, "-", <<"-">>),
               1, "+", <<" ", "+", " ">>)

\* words that mark a parenthetical note as voided or superseded: "volume",
\* "terminated"
VoidKeywords == { <<"J", "I", "L", "I", "D">>, <<"T", "A", "M", "A", "T">> }

\* the position of the ")" that closes the "(" at position i of s with no
\* parenthesis in between, 0 when there is none
CloseOf(s, i) ==
    LET nxt == {j \in (i + 1)..Len(s) : s[j] \in {"(", ")"}}
    IN  IF s[i] /= "(" \/ nxt = {} THEN 0
        ELSE IF s[Min(nxt)] = ")" THEN Min(nxt) ELSE 0

IsVoidNote(note) == \E w \in VoidKeywords : Contains(w, upper(note))

\* s without its parenthetical notes that hold a word of VoidKeywords
RECURSIVE DropVoidNotes(_, _)
DropVoidNotes(s, i) ==
    IF i > Len(s) THEN <<>>
    ELSE IF CloseOf(s, i) > 0 /\ IsVoidNote(SubSeq(s, i, CloseOf(s, i)))
         THEN DropVoidNotes(s, CloseOf(s, i) + 1)
         ELSE <<s[i]>> \o DropVoidNotes(s, i + 1)

\* format_fail_no_display with the voided notes dropped
format_fail_no_display_void_dropped(v) ==
    IF is_blankish_text(v) THEN <<>>
    ELSE Strip(CollapseSpaces(DisplaySeps(DisplayLines(DisplayPrefix(DropVoidNotes(Strip(v), 1)))), 1))

format_fail_no_display(v) ==
    IF is_blankish_text(v) THEN <<>>
    ELSE Strip(CollapseSpaces(DisplaySeps(DisplayLines(DisplayPrefix(Strip(v)))), 1))

\* re.search(r"/\d{3,5}-(.+)$", s): the positions i of "/" where it matches
JenisMatchAt(s, i) ==
    /\ s[i] = "/"
    /\ LET n == RunLen(s, i + 1, Digits)
       IN  /\ n >= 3 /\ n <= 5
           /\ i + n + 2 <= Len(s)
           /\ s[i + n + 1] = "-"
           /\ \A k \in (i + n + 2)..Len(s) : s[k] /= "\n"

\* tail.lstrip("-<dashes>").strip() of the stripped group
JenisTail(tail) ==
    IF tail /= <<>> /\ tail[1] \in DashChars THEN Strip(Tail(tail)) ELSE tail

\* the group of the leftmost match in the display form s
JenisOf(s) ==
    LET hits == {i \in 1..Len(s) : JenisMatchAt(s, i)}
    IN  IF s = <<>> \/ hits = {} THEN <<>>
        ELSE JenisTail(Strip(From(s, Min(hits) + RunLen(s, Min(hits) + 1, Digits) + 2)))

extract_jenis_from_fail_no_display(fail_no_display) ==
    JenisOf(format_fail_no_display(fail_no_display))

----------------------------------------------------------------------------
(* Tail, series and head of a reference *)

WordChars == LowerSet \cup UpperSet \cup Digits \cup {"_"}

\* re.search(r"/(\d{3,5})(?:[-A-Z\(]|$)", s): the position of the "/" of the
\* leftmost match, 0 when there is none
TailMatchAt(s, i) ==
    /\ s[i] = "/"
    /\ LET n == RunLen(s, i + 1, Digits)
       IN  /\ n >= 3
           /\ \E m \in 3..5 :
                 /\ m <= n
                 /\ (i + m = Len(s) \/ (i + m < Len(s) /\ s[i + m + 1] \in UpperSet \cup {"-", "("}))

TailLenAt(s, i) ==
    CHOOSE m \in 3..5 :
        /\ m <= RunLen(s, i + 1, Digits)
        /\ (i + m = Len(s) \/ (i + m < Len(s) /\ s[i + m + 1] \in UpperSet \cup {"-", "("}))

\* the digits of the match at the "/" at position i
TailAt(s, i) == SubSeq(s, i + 1, i + TailLenAt(s, i))

\* the group of the leftmost match in the normalised reference s
TailOf(s) ==
    LET hits == {i \in 1..Len(s) : TailMatchAt(s, i)}
    IN  IF hits = {} THEN <<>> ELSE TailAt(s, Min(hits))

extract_tail_only(fail_no) == TailOf(normalize_osc_prefix(fail_no))

\* re.search(r"^(MBSP)/(\d+)/([^/]+)/(\d{3,5})", s): the four groups, or <<>>
\* the last group, from the "/" at p3 on (p2 is the "/" before the series)
HeadGroupTail(s, p2, p3) ==
    LET n3 == RunLen(s, p3 + 1, Digits)
    IN  IF n3 < 3 THEN <<>>
        ELSE << cMBSP,
                SubSeq(s, 6, p2 - 1),
                SubSeq(s, p2 + 1, p3 - 1),
                SubSeq(s, p3 + 1, p3 + (IF n3 > 5 THEN 5 ELSE n3)) >>

\* the series group, from the "/" at p2 on
HeadGroupSeries(s, p2) ==
    LET n2 == RunLen(s, p2 + 1, AnyBut({"/"}, s))
    IN  IF n2 = 0 \/ p2 + 1 + n2 > Len(s) THEN <<>>
        ELSE HeadGroupTail(s, p2, p2 + 1 + n2)

HeadGroups(s) ==
    IF ~OccursAt(cMBSP \o SL, s, 1) THEN <<>>
    ELSE LET n1 == RunLen(s, 6, Digits)
         IN  IF n1 = 0 \/ 6 + n1 > Len(s) \/ s[6 + n1] /= "/" THEN <<>>
             ELSE HeadGroupSeries(s, 6 + n1)

\* f"{series}|{tail}" of the groups g
SeriesTailOf(g) == IF g = <<>> THEN <<>> ELSE g[3] \o <<"|">> \o g[4]

extract_series_tail_key(fail_no) == SeriesTailOf(HeadGroups(normalize_osc_prefix(fail_no)))

\* f"{prefix}/{yy}/{series}/{tail}" of the groups g
HeadOf(g) == IF g = <<>> THEN <<>> ELSE MkHead(g[1], g[2], g[3], g[4])

extract_osc_head(fail_no) == HeadOf(HeadGroups(normalize_osc_prefix(fail_no)))

is_serentak(sheet_name, fail_no_display_or_raw) ==
    \/ canonical_sheet_name(sheet_name) = cSERENTAK
    \/ Contains(cSERENTAK, upper(fail_no_display_or_raw))

\* the last "-" (not at the first position) whose following segment contains a
\* known code as a substring cuts the parent key
IndukOf(s) ==
    LET cuts == {i \in 2..Len(s) :
                    /\ s[i] = "-"
                    /\ \E n \in 1..Len(KNOWN_CODES) :
                          Contains(KNOWN_CODES[n], upper(From(s, i + 1)))}
    IN  IF s = <<>> \/ cuts = {} THEN s ELSE Upto(s, Max(cuts) - 1)

split_fail_induk(fail_no) == IndukOf(Strip(normalize_osc_prefix(fail_no)))

----------------------------------------------------------------------------
(* Applicant key and lot tokens *)

\* \b at position i of s: between s[i-1] and s[i]
WordBoundary(s, i) ==
    LET before == i > 1 /\ i - 1 <= Len(s) /\ s[i - 1] \in WordChars
        after  == i >= 1 /\ i <= Len(s) /\ s[i] \in WordChars
    IN  before /= after

\* the literal w at position i followed by \b: the position after it, else 0
WordEnd(s, i, w) ==
    IF OccursAt(w, s, i) /\ WordBoundary(s, i + Len(w)) THEN i + Len(w) ELSE 0

wTetuan == <<"t", "e", "t", "u", "a", "n">>
wTuan == <<"t", "u", "a", "n">>
wPuan == <<"p", "u", "a", "n">>
wSdn == <<"s", "d", "n">>
wBhd == <<"b", "h", "d">>
wBerhad == <<"b", "e", "r", "h", "a", "d">>
wEnterprise == <<"e", "n", "t", "e", "r", "p", "r", "i", "s", "e">>
wEnterprises == <<"e", "n", "t", "e", "r", "p", "r", "i", "s", "e", "s">>
wPlc == <<"p", "l", "c">>
wLlp == <<"l", "l", "p">>
wLtd == <<"l", "t", "d">>

\* the first alternative of `alts` (in order) that matches at i: position after it
RECURSIVE FirstWordEnd(_, _, _, _)
FirstWordEnd(s, i, alts, k) ==
    IF k > Len(alts) THEN 0
    ELSE IF WordEnd(s, i, alts[k]) /= 0 THEN WordEnd(s, i, alts[k])
    ELSE FirstWordEnd(s, i, alts, k + 1)

\* \b(tetuan|tuan|puan)\b at i: position after the match, else 0
TitleEnd(s, i) ==
    IF ~WordBoundary(s, i) THEN 0
    ELSE FirstWordEnd(s, i, <<wTetuan, wTuan, wPuan>>, 1)

\* sdn\.?\s*bhd\.? | sdn\s*bhd at i, followed by \b: position after "bhd"
\* (a final "." the pattern may take is removed by the last step anyway)
SdnBhdEnd(s, i) ==
    IF ~OccursAt(wSdn, s, i) THEN 0
    ELSE LET j == IF i + 3 <= Len(s) /\ s[i + 3] = "." THEN i + 4 ELSE i + 3
             k == j + RunLen(s, j, WS)
         IN  WordEnd(s, k, wBhd)

\* \b(sdn\.?\s*bhd\.?|sdn\s*bhd|bhd|berhad|enterprise|enterprises|plc|llp|ltd)\b
CorpEnd(s, i) ==
    IF ~WordBoundary(s, i) THEN 0
    ELSE IF SdnBhdEnd(s, i) /= 0 THEN SdnBhdEnd(s, i)
    ELSE FirstWordEnd(s, i, <<wBhd, wBerhad, wEnterprise, wEnterprises, wPlc, wLlp, wLtd>>, 1)

\* re.sub(pattern, "", s) for the title pattern
RECURSIVE RemoveTitles(_, _)
RemoveTitles(s, i) ==
    IF i > Len(s) THEN <<>>
    ELSE IF TitleEnd(s, i) /= 0 THEN RemoveTitles(s, TitleEnd(s, i))
    ELSE <<s[i]>> \o RemoveTitles(s, i + 1)

\* re.sub(pattern, "", s) for the company-suffix pattern
RECURSIVE RemoveCorp(_, _)
RemoveCorp(s, i) ==
    IF i > Len(s) THEN <<>>
    ELSE IF CorpEnd(s, i) /= 0 THEN RemoveCorp(s, CorpEnd(s, i))
    ELSE <<s[i]>> \o RemoveCorp(s, i + 1)

pemohon_norm(x) ==
    SelectSeq(RemoveCorp(RemoveTitles(Strip(lower(x)), 1), 1),
              LAMBDA c : c \in LowerSet \cup Digits)

\* re.findall(r"\d{2,6}", s)
\* a maximal run of n digits gives its successive pieces of six digits and
\* a last shorter piece when that has two digits or more
DigitRuns(s) ==
    LET starts == {i \in 1..Len(s) : s[i] \in Digits /\ (i = 1 \/ s[i - 1] \notin Digits)}
        pieces(i) == LET n == RunLen(s, i, Digits)
                     IN  { SubSeq(s, i + 6 * k, i + 6 * k + Min({6, n - 6 * k}) - 1) :
                             k \in {k \in 0..((n - 1) \div 6) : n - 6 * k >= 2} }
    IN  UNION {pieces(i) : i \in starts}

lot_tokens(x) == DigitRuns(x)

----------------------------------------------------------------------------
(* Agenda parser *)

kKERTAS == <<"K", "E", "R", "T", "A", "S">>
kMESYUARAT == <<"M", "E", "S", "Y", "U", "A", "R", "A", "T">>
kBIL == <<"B", "I", "L", ".">>
kOSC == <<"O", "S", "C", "/">>
kOSC_PTJ == <<"O", "S", "C", "/", "P", "T", "J", "/">>
kNO == <<"N", "O">>
kRUJUKAN == <<"R", "U", "J", "U", "K", "A", "N">>
kOSC3 == <<"O", "S", "C">>
kPEMOHON == <<"P", "E", "M", "O", "H", "O", "N">>
kTETUAN == <<"T", "E", "T", "U", "A", "N">>
kLOT == <<"L", "O", "T">>
kPT == <<"P", "T">>
cBGN_DASH_EVCB == <<"B", "G", "N", "-", "E", "V", "C", "B">>

NL == <<"\n">>

\* "\n".join(lines)
RECURSIVE JoinLines(_)
JoinLines(ls) ==
    IF ls = <<>> THEN <<>>
    ELSE IF Len(ls) = 1 THEN ls[1]
    ELSE ls[1] \o NL \o JoinLines(Tail(ls))

\* HEADER_ANYWHERE_RE at position i of s (u is upper(s))
HeaderAt(s, u, i) ==
    /\ WordBoundary(s, i)
    /\ OccursAt(kKERTAS, u, i)
    /\ LET j1 == SkipWS(s, i + 6)
       IN  /\ j1 > i + 6
           /\ OccursAt(kMESYUARAT, u, j1)
           /\ LET j2 == SkipWS(s, j1 + 9)
              IN  /\ j2 > j1 + 9
                  /\ OccursAt(kBIL, u, j2)
                  /\ OccursAt(kOSC, u, SkipWS(s, j2 + 4))

\* HEADER_ANYWHERE_RE.search(line)
IsHeaderLine(line) ==
    LET u == upper(line) IN \E i \in 1..Len(line) : HeaderAt(line, u, i)

\* HEADER_CODE_RE at position i: the position of the closing "/" of the match,
\* 0 when OSC/<letters>[-<letters>]/ does not match there
HeaderCodeEnd(u, i) ==
    IF ~OccursAt(kOSC, u, i) THEN 0
    ELSE LET a  == i + 4
             n  == RunLen(u, a, UpperSet)
             b  == a + n
         IN  IF n < 2 \/ n > 12 \/ b > Len(u) THEN 0
             ELSE IF u[b] = "/" THEN b
             ELSE IF u[b] = "-"
                  THEN LET m == RunLen(u, b + 1, UpperSet)
                           c == b + 1 + m
                       IN  IF m >= 2 /\ m <= 12 /\ c <= Len(u) /\ u[c] = "/" THEN c ELSE 0
             ELSE 0

parse_block_codes(header_line) ==
    LET u    == upper(header_line)
        hits == {i \in 1..Len(u) : HeaderCodeEnd(u, i) /= 0}
    IN  IF hits = {} THEN {}
        ELSE LET i   == Min(hits)
                 raw == Strip(SubSeq(u, i + 4, HeaderCodeEnd(u, i) - 1))
             IN  (IF raw \in Range(KNOWN_CODES) THEN {raw} ELSE {})
                 \cup (IF raw \in {cBGN_DASH_EVCB, cBGN_EVCB} THEN {cBGN, cEVCB} ELSE {})

\* \s*/\s* from p on: the position after it, or 0
SlashEnd(s, p) ==
    LET q == SkipWS(s, p)
    IN  IF q <= Len(s) /\ s[q] = "/" THEN SkipWS(s, q + 1) ELSE 0

\* the tail group (\d{3,5})\b from c on
OscHeadTail(s, i, yy, series, c) ==
    LET n3 == IF c = 0 THEN 0 ELSE RunLen(s, c, Digits)
    IN  IF n3 < 3 \/ n3 > 5 \/ ~WordBoundary(s, c + n3) THEN <<>>
        ELSE <<yy, series, SubSeq(s, c, c + n3 - 1), c + n3, SubSeq(s, i, i + 3)>>

\* the series group ([A-Z0-9\-]+) from b on, then "/"
OscHeadSeries(s, u, i, yy, b) ==
    LET n2 == IF b = 0 THEN 0 ELSE RunLen(u, b, UpperSet \cup Digits \cup {"-"})
    IN  IF n2 = 0 THEN <<>>
        ELSE OscHeadTail(s, i, yy, SubSeq(u, b, b + n2 - 1), SlashEnd(s, b + n2))

\* the year group (\d+) from a on, then "/"
OscHeadYear(s, u, i, a) ==
    LET n1 == IF a = 0 THEN 0 ELSE RunLen(s, a, Digits)
    IN  IF n1 = 0 THEN <<>>
        ELSE OscHeadSeries(s, u, i, SubSeq(s, a, a + n1 - 1), SlashEnd(s, a + n1))

\* OSC_HEAD_RE at position i of s (u is upper(s)): <<yy, SERIES, tail, end, prefix>>
\* with end the position after the match, or <<>>
OscHeadAt(s, u, i) ==
    IF WordBoundary(s, i) /\ i + 3 <= Len(s) /\ SubSeq(u, i, i + 3) \in {cMBSP, cMBPS, cMPSP}
    THEN OscHeadYear(s, u, i, SlashEnd(s, i + 4))
    ELSE <<>>

\* OSC_HEAD_RE.finditer(s) from position i on: the matches in order
RECURSIVE OscHeadsFrom(_, _, _)
OscHeadsFrom(s, u, i) ==
    LET starts == {j \in i..Len(s) : OscHeadAt(s, u, j) /= <<>>}
    IN  IF starts = {} THEN <<>>
        ELSE LET m == OscHeadAt(s, u, Min(starts))
             IN  <<m>> \o OscHeadsFrom(s, u, m[4])

OscHeadFindAll(s) == OscHeadsFrom(s, upper(s), 1)

\* the text after a label that ends before position j: \s*:?\s*(.+)
\* <<found, group, end>>: group is the rest of the line
\* position after an optional ":" at j1
ColonEnd(s, j1) == IF j1 <= Len(s) /\ s[j1] = ":" THEN j1 + 1 ELSE j1

\* the group (.+) from j3 on, j3 being where \s*:?\s* stops after the label end j
LabelRest(s, j, j3) ==
    LET n == RunLen(s, j3, AnyBut({"\n"}, s))
    IN  IF n > 0 THEN <<TRUE, SubSeq(s, j3, j3 + n - 1), j3 + n>>
        \* nothing left on a line: the pattern gives back what it skipped
        ELSE IF j3 > j /\ s[j3 - 1] /= "\n"
             THEN <<TRUE, <<s[j3 - 1]>>, j3>>
        ELSE <<FALSE, <<>>, j>>

AfterLabel(s, j) == LabelRest(s, j, SkipWS(s, ColonEnd(s, SkipWS(s, j))))

\* NO_RUJ_OSC_LINE_RE at position i: the end of the label "No. Rujukan OSC", or 0
NoRujLabelEnd(s, u, i) ==
    IF ~OccursAt(kNO, u, i) THEN 0
    ELSE LET a == IF i + 2 <= Len(s) /\ s[i + 2] = "." THEN i + 3 ELSE i + 2
             b == SkipWS(s, a)
         IN  IF ~OccursAt(kRUJUKAN, u, b) THEN 0
             ELSE LET c == SkipWS(s, b + 7)
                  IN  IF OccursAt(kOSC3, u, c) THEN c + 3 ELSE 0

\* NO_RUJ_OSC_LINE_RE.finditer(s): the right-hand sides, stripped
RECURSIVE NoRujFrom(_, _, _)
NoRujFrom(s, u, i) ==
    LET hit(j) == LET e == NoRujLabelEnd(s, u, j)
                  IN  IF e = 0 THEN <<FALSE, <<>>, j>> ELSE AfterLabel(s, e)
        starts == {j \in i..Len(s) : hit(j)[1]}
    IN  IF starts = {} THEN <<>>
        ELSE LET m == hit(Min(starts))
             IN  <<Strip(m[2])>> \o NoRujFrom(s, u, m[3])

\* the head a "No. Rujukan OSC" line adds: OSC_HEAD_RE.search on the
\* normalised right-hand side
RECURSIVE FirstHeads(_, _)
FirstHeads(rhs, k) ==
    IF k > Len(rhs) THEN <<>>
    ELSE LET ms == OscHeadFindAll(normalize_osc_prefix(rhs[k]))
         IN  (IF ms = <<>> THEN <<>> ELSE <<ms[1]>>) \o FirstHeads(rhs, k + 1)

NoRujHeads(s) ==
    LET rhs  == NoRujFrom(s, upper(s), 1)
        kept == SelectSeq(rhs, LAMBDA x : x /= <<>> /\ normalize_osc_prefix(x) \notin {<<"-">>})
    IN  FirstHeads(kept, 1)

\* the sequence without later repetitions
RECURSIVE DedupSeq(_, _)
DedupSeq(q, seen) ==
    IF q = <<>> THEN <<>>
    ELSE IF Head(q) \in seen THEN DedupSeq(Tail(q), seen)
    ELSE <<Head(q)>> \o DedupSeq(Tail(q), seen \cup {Head(q)})

\* PEMOHON_LINE_RE.search(s), else the Tetuan fallback: the applicant text
\* the stripped group of the leftmost of the matches that start in `hits`,
\* for a label of n characters
FirstLabelText(s, hits, n) == Strip(AfterLabel(s, Min(hits) + n)[2])

\* the starts of the matches of PEMOHON_LINE_RE in s (u is upper(s))
PemohonHits(s, u) ==
    {i \in 1..Len(s) : OccursAt(kPEMOHON, u, i) /\ AfterLabel(s, i + 7)[1]}

\* the starts of the matches of the Tetuan pattern
TetuanHits(s, u) ==
    {i \in 1..Len(s) : /\ WordBoundary(s, i)
                       /\ OccursAt(kTETUAN, u, i)
                       /\ WordBoundary(s, i + 6)
                       /\ AfterLabel(s, i + 6)[1]}

PemohonFrom(s, hitP, hitT) ==
    IF hitP /= {} THEN FirstLabelText(s, hitP, 7)
    ELSE IF hitT /= {} THEN FirstLabelText(s, hitT, 6)
    ELSE <<>>

PemohonText(s) == PemohonFrom(s, PemohonHits(s, upper(s)), TetuanHits(s, upper(s)))

LotWindow == 160

\* \b(?:di\s+atas\s+)?lot\b[^.\n\r]{0,160} at i: position after the match, or 0
\* (the optional words before "lot" hold no digits and are left out)
LotEnd(s, u, i) ==
    IF ~(WordBoundary(s, i) /\ OccursAt(kLOT, u, i) /\ WordBoundary(s, i + 3)) THEN 0
    ELSE LET n == RunLen(s, i + 3, AnyBut({".", "\n", "\r"}, s))
         IN  i + 3 + (IF n > LotWindow THEN LotWindow ELSE n)

\* \bPT\s*\d{1,6}\b at i: position after the match, or 0
PtEnd(s, u, i) ==
    IF ~(WordBoundary(s, i) /\ OccursAt(kPT, u, i)) THEN 0
    ELSE LET a == SkipWS(s, i + 2)
             n == RunLen(s, a, Digits)
         IN  IF n >= 1 /\ n <= 6 /\ WordBoundary(s, a + n) THEN a + n ELSE 0

\* the digit tokens of all matches of a pattern, scanning from i
RECURSIVE LotCandTokens(_, _, _)
LotCandTokens(s, u, i) ==
    LET starts == {j \in i..Len(s) : LotEnd(s, u, j) /= 0}
    IN  IF starts = {} THEN {}
        ELSE LET j == Min(starts)
                 e == LotEnd(s, u, j)
             IN  lot_tokens(SubSeq(s, j, e - 1)) \cup LotCandTokens(s, u, e)

RECURSIVE PtCandTokens(_, _, _)
PtCandTokens(s, u, i) ==
    LET starts == {j \in i..Len(s) : PtEnd(s, u, j) /= 0}
    IN  IF starts = {} THEN {}
        ELSE LET j == Min(starts)
                 e == PtEnd(s, u, j)
             IN  lot_tokens(SubSeq(s, j, e - 1)) \cup PtCandTokens(s, u, e)

HasLotCandidate(s) ==
    LET u == upper(s)
    IN  \E i \in 1..Len(s) : LotEnd(s, u, i) /= 0 \/ PtEnd(s, u, i) /= 0

BlockLotSet(s) ==
    IF HasLotCandidate(s)
    THEN LotCandTokens(s, upper(s), 1) \cup PtCandTokens(s, upper(s), 1)
    ELSE lot_tokens(s)

\* the line the header is read from: the first of the first three lines that
\* holds the marker, else the first line
HeaderLineOf(block_lines) ==
    LET first3 == {k \in 1..Len(block_lines) : k <= 3 /\ IsHeaderLine(block_lines[k])}
    IN  IF first3 /= {} THEN Strip(block_lines[Min(first3)])
        ELSE IF block_lines /= <<>> THEN Strip(block_lines[1])
        ELSE <<>>

\* the header names the exempt series OSC/PTJ/
IsPtjHeader(header_line, hu) ==
    \E i \in 1..Len(header_line) : WordBoundary(header_line, i) /\ OccursAt(kOSC_PTJ, hu, i)

\* the heads of the matches ms, prefix normalised
HeadsOfMatches(ms) ==
    [k \in 1..Len(ms) |->
        MkHead(normalize_osc_prefix(ms[k][5]), ms[k][1], ms[k][2], ms[k][3])]

\* the AgendaBlock of a header line, a block text and the reference matches
\* ms found in the text
BlockRecord(header_line, text, ms) ==
    [ is_ptj  |-> IsPtjHeader(header_line, upper(header_line)),
      codes   |-> parse_block_codes(header_line),
      osc_heads |-> DedupSeq(HeadsOfMatches(ms), {}),
      tails   |-> {ms[k][3] : k \in 1..Len(ms)},
      series_tail_keys |-> {ms[k][2] \o <<"|">> \o ms[k][3] : k \in 1..Len(ms)},
      pemohon_key |-> pemohon_norm(PemohonText(text)),
      lot_set |-> BlockLotSet(text),
      has_osc |-> ms /= <<>> ]

\* the matches of the head pattern in the text, then those of the
\* "No. Rujukan OSC" lines
BlockMatches(header_line, text) ==
    BlockRecord(header_line, text, OscHeadFindAll(text) \o NoRujHeads(text))

\* a block is the sequence of its lines
parse_agenda_block(block_lines) ==
    BlockMatches(HeaderLineOf(block_lines), Strip(JoinLines(block_lines)))

\* the indices of the lines of `lines` that hold the header marker
HeaderIdx(lines) == {i \in 1..Len(lines) : IsHeaderLine(lines[i])}

\* the blocks of the document, each from a header line to the line before the
\* next; the whole text is one block when no line holds the marker
RECURSIVE BlocksFrom(_, _, _)
BlocksFrom(lines, idx, i) ==
    IF i > Len(lines) THEN <<>>
    ELSE LET later == {j \in idx : j > i}
             end   == IF later = {} THEN Len(lines) + 1 ELSE Min(later)
         IN  <<SubSeq(lines, i, end - 1)>> \o BlocksFrom(lines, idx, end)

split_into_blocks(lines) ==
    LET idx == HeaderIdx(lines)
    IN  IF idx = {} THEN (IF Strip(JoinLines(lines)) /= <<>> THEN <<lines>> ELSE <<>>)
        ELSE BlocksFrom(lines, idx, Min(idx))

\* IndexOf with the exemption forgotten: every block adds to the three sets
IndexOfEveryBlock(blocks) ==
    [ tails_all |-> UNION {blocks[k].tails : k \in 1..Len(blocks)},
      series_tail_all |-> UNION {blocks[k].series_tail_keys : k \in 1..Len(blocks)},
      osc_head_norm_all |->
          {osc_norm(h) : h \in UNION {Range(blocks[k].osc_heads) : k \in 1..Len(blocks)}},
      blocks |-> blocks ]

\* the AgendaIndex of the parsed blocks: PTJ blocks are kept in `blocks`
\* and add nothing to the three sets
IndexOf(blocks) ==
    LET open == {k \in 1..Len(blocks) : ~blocks[k].is_ptj}
    IN  [ tails_all |-> UNION {blocks[k].tails : k \in open},
          series_tail_all |-> UNION {blocks[k].series_tail_keys : k \in open},
          osc_head_norm_all |-> {osc_norm(h) : h \in UNION {Range(blocks[k].osc_heads) : k \in open}},
          blocks |-> blocks ]

\* the document text is the sequence of its lines
parse_agenda_docx(lines) ==
    LET blocks_raw == split_into_blocks(lines)
    IN  IndexOf([k \in 1..Len(blocks_raw) |-> parse_agenda_block(blocks_raw[k])])

----------------------------------------------------------------------------
(* Rows: the spreadsheet reader's records and their enrichment *)

\* parse_date_from_cell yields None for a cell that holds no date; dates are
\* day numbers 1, 2, ...
NoDate == 0

\* the separators of a written date: [/-]
DateSeps == {"/", "-"}

DigitChars == <<"0", "1", "2", "3", "4", "5", "6", "7", "8", "9">>

DigitValue(c) == CHOOSE n \in 0..9 : DigitChars[n + 1] = c

RECURSIVE Number(_)
\* int(m.group(k))
Number(digits) ==
    IF digits = <<>> THEN 0
    ELSE 10 * Number(Upto(digits, Len(digits) - 1)) + DigitValue(digits[Len(digits)])

\* the months of the model's calendar and the day number before their first
\* day: dates are the days of January 2026
Calendar == [ym \in {<<2026, 1>>} |-> 0]

\* dt.date(y, mo, d), NoDate where it raises ValueError (caught: return None)
make_date(y, mo, d) ==
    IF y = 0 \/ mo \notin 1..12 \/ d \notin 1..31 THEN NoDate
    ELSE Calendar[<<y, mo>>] + d

\* the length \d{1,2} takes at i when a separator must follow, 0 if it fails
FieldLen(s, i) ==
    LET n == RunLen(s, i, Digits)
    IN  IF n \in {1, 2} /\ i + n <= Len(s) /\ s[i + n] \in DateSeps THEN n ELSE 0

\* (\d{1,2})[/-](\d{1,2})[/-](\d{4}) matches at i
DmyAt(s, i) ==
    /\ FieldLen(s, i) > 0
    /\ FieldLen(s, i + FieldLen(s, i) + 1) > 0
    /\ RunLen(s, i + FieldLen(s, i) + FieldLen(s, i + FieldLen(s, i) + 1) + 2, Digits) >= 4

DmyDate(s, i) ==
    LET a == FieldLen(s, i)
        j == i + a + 1
        b == FieldLen(s, j)
        k == j + b + 1
    IN  make_date(Number(SubSeq(s, k, k + 3)), Number(SubSeq(s, j, j + b - 1)),
                  Number(SubSeq(s, i, i + a - 1)))

\* (\d{4})[/-](\d{1,2})[/-](\d{1,2}) matches at i
YmdAt(s, i) ==
    /\ i + 4 <= Len(s)
    /\ \A k \in i..(i + 3) : s[k] \in Digits
    /\ s[i + 4] \in DateSeps
    /\ FieldLen(s, i + 5) > 0
    /\ RunLen(s, i + FieldLen(s, i + 5) + 6, Digits) >= 1

YmdDate(s, i) ==
    LET b == FieldLen(s, i + 5)
        k == i + b + 6
    IN  make_date(Number(SubSeq(s, i, i + 3)), Number(SubSeq(s, i + 5, i + b + 4)),
                  Number(SubSeq(s, k, k + Min({2, RunLen(s, k, Digits)}) - 1)))

\* parse_date_from_cell of a text cell; <<>> is the empty cell (None)
parse_date_from_cell(val) ==
    LET s == Strip(val)
        dmy == {i \in 1..Len(s) : DmyAt(s, i)}
        ymd == {i \in 1..Len(s) : YmdAt(s, i)}
    IN  IF s = <<>> \/ lower(s) = wNan THEN NoDate
        ELSE IF dmy /= {} THEN DmyDate(s, Min(dmy))
        ELSE IF ymd /= {} THEN YmdDate(s, Min(ymd))
        ELSE NoDate

\* parse_induk_code: the last match of [A-Z]{2,5} in the upper-cased cell
parse_induk_code(val) ==
    LET s == upper(Strip(val))
        runs == {i \in 1..Len(s) : /\ s[i] \in UpperSet
                                   /\ (i = 1 \/ s[i - 1] \notin UpperSet)
                                   /\ RunLen(s, i, UpperSet) >= 2}
        i == Max(runs)
        n == RunLen(s, i, UpperSet)
        last == i + n - 1 - (IF n % 5 = 1 THEN 1 ELSE 0)
        len == IF n % 5 >= 2 THEN n % 5 ELSE 5
    IN  IF is_nan(val) \/ runs = {} THEN <<>>
        ELSE SubSeq(s, last - len + 1, last)

\* the first alternative of `alts` (in order) that occurs at i followed by \b
RECURSIVE FirstWord(_, _, _, _)
FirstWord(s, i, alts, k) ==
    IF k > Len(alts) THEN <<>>
    ELSE IF WordEnd(s, i, alts[k]) /= 0 THEN alts[k]
    ELSE FirstWord(s, i, alts, k + 1)

PrimaryAlts ==
    <<cTKR_GUNA, cPKM, cTKR, c124A, c204D, cPS, cSB, cCT, cKTUP, cLJUP, cJP, cPL,
      cBGN, cEVCB, cEV, cTELCO>>

\* s.replace("TKR GUNA", "TKR-GUNA")
RECURSIVE ReplaceTkrGuna(_, _)
ReplaceTkrGuna(s, i) ==
    IF i > Len(s) THEN <<>>
    ELSE IF OccursAt(<<"T", "K", "R", " ", "G", "U", "N", "A">>, s, i)
         THEN cTKR_GUNA \o ReplaceTkrGuna(s, i + 8)
         ELSE <<s[i]>> \o ReplaceTkrGuna(s, i + 1)

\* the code the sheet name su stands for when the text names none
PrimaryOfSheet(su) ==
    IF su \in {cPKM, cTKR, cTKR_GUNA, cKTUP, cJP, cLJUP, cPL, cPS, cSB, cCT,
               cEVCB, cEV, cTELCO, cBGN}
    THEN su
    ELSE IF su = cPKM_TUKARGUNA THEN cTKR_GUNA
    ELSE <<>>

\* the leftmost code word of the cleaned text s, else the code of the sheet
PrimaryOf(s, su) ==
    LET hits == {i \in 1..Len(s) : WordBoundary(s, i) /\ FirstWord(s, i, PrimaryAlts, 1) /= <<>>}
    IN  IF hits /= {} THEN FirstWord(s, Min(hits), PrimaryAlts, 1)
        ELSE PrimaryOfSheet(su)

parse_primary_code(jenis_row, sheet_u) ==
    PrimaryOf(ReplaceTkrGuna(Strip(upper(jenis_row)), 1), upper(canonical_sheet_name(sheet_u)))

\* the record read_kertas_excel_ultra builds for one spreadsheet row from
\* the cells c of the row and the district label of the file
MkRow(c) ==
    [ daerah       |-> c.daerah,
      sheet        |-> canonical_sheet_name(c.sheet),
      fail_no_disp |-> format_fail_no_display(clean_str(c.fail)),
      fail_no_raw  |-> normalize_osc_prefix(clean_fail_no(c.fail)),
      pemohon      |-> clean_str(c.pem),
      mukim        |-> clean_str(c.mukim),
      lot          |-> clean_str(c.lot),
      jenis_row    |-> clean_str(c.jenis),
      km_date      |-> parse_date_from_cell(c.km),
      ut_date      |-> parse_date_from_cell(c.ut),
      belum        |-> clean_str(c.belum),
      keputusan    |-> clean_str(c.keputusan),
      induk_code   |-> parse_induk_code(c.km) ]

EnrichWith(r, sheet_u) ==
        [ daerah       |-> r.daerah,
          sheet        |-> r.sheet,
          fail_no_disp |-> r.fail_no_disp,
          fail_no_raw  |-> r.fail_no_raw,
          pemohon      |-> r.pemohon,
          mukim        |-> r.mukim,
          lot          |-> r.lot,
          jenis_row    |-> r.jenis_row,
          km_date      |-> r.km_date,
          ut_date      |-> r.ut_date,
          belum        |-> r.belum,
          keputusan    |-> r.keputusan,
          induk_code   |-> r.induk_code,
          sheet_u      |-> sheet_u,
          codes        |-> extract_codes(r.fail_no_raw, sheet_u),
          primary_code |-> parse_primary_code(r.jenis_row, sheet_u),
          serentak     |-> is_serentak(sheet_u, IF r.fail_no_disp /= <<>> THEN r.fail_no_disp
                                                ELSE r.fail_no_raw),
          fail_induk   |-> split_fail_induk(r.fail_no_raw),
          tail         |-> extract_tail_only(r.fail_no_raw),
          series_tail  |-> extract_series_tail_key(r.fail_no_raw),
          osc_head_norm |-> osc_norm(extract_osc_head(r.fail_no_raw)),
          pemohon_key  |-> pemohon_norm(r.pemohon),
          lot_set      |-> lot_tokens(r.lot) ]

enrich_row(r) == EnrichWith(r, canonical_sheet_name(r.sheet))

enrich_rows(rows) == [k \in 1..Len(rows) |-> enrich_row(rows[k])]

----------------------------------------------------------------------------
(* Cross-reference matcher *)

\* FallbackBlockMatches with the exemption test forgotten
FallbackAnyBlock(row, blk) ==
    /\ blk.pemohon_key /= <<>> /\ blk.lot_set /= {}
    /\ (blk.codes = {} \/ row.codes \cap blk.codes /= {})
    /\ row.pemohon_key = blk.pemohon_key
    /\ LET inter == row.lot_set \cap blk.lot_set
           least == IF Cardinality(row.lot_set) < Cardinality(blk.lot_set)
                    THEN Cardinality(row.lot_set) ELSE Cardinality(blk.lot_set)
       IN  /\ inter /= {}
           /\ ~(least >= 2 /\ Cardinality(inter) < 2)

\* FallbackBlockMatches with the lot tests forgotten
FallbackByApplicant(row, blk) ==
    /\ ~blk.is_ptj
    /\ blk.pemohon_key /= <<>> /\ blk.lot_set /= {}
    /\ (blk.codes = {} \/ row.codes \cap blk.codes /= {})
    /\ row.pemohon_key = blk.pemohon_key

\* FallbackBlockMatches with one shared lot token too few as soon as either
\* side has two lot tokens
FallbackEitherRich(row, blk) ==
    /\ ~blk.is_ptj
    /\ blk.pemohon_key /= <<>> /\ blk.lot_set /= {}
    /\ (blk.codes = {} \/ row.codes \cap blk.codes /= {})
    /\ row.pemohon_key = blk.pemohon_key
    /\ LET inter == row.lot_set \cap blk.lot_set
           most == IF Cardinality(row.lot_set) > Cardinality(blk.lot_set)
                   THEN Cardinality(row.lot_set) ELSE Cardinality(blk.lot_set)
       IN  /\ inter /= {}
           /\ ~(most >= 2 /\ Cardinality(inter) < 2)

\* FallbackBlockMatches with one shared lot token enough in every case
FallbackOneLot(row, blk) ==
    /\ ~blk.is_ptj
    /\ blk.pemohon_key /= <<>> /\ blk.lot_set /= {}
    /\ (blk.codes = {} \/ row.codes \cap blk.codes /= {})
    /\ row.pemohon_key = blk.pemohon_key
    /\ row.lot_set \cap blk.lot_set /= {}

\* one agenda block passes every test of the loop of _agenda_fallback_match
FallbackBlockMatches(row, blk) ==
    /\ ~blk.is_ptj
    /\ blk.pemohon_key /= <<>> /\ blk.lot_set /= {}
    /\ (blk.codes = {} \/ row.codes \cap blk.codes /= {})
    /\ row.pemohon_key = blk.pemohon_key
    /\ LET inter == row.lot_set \cap blk.lot_set
           least == IF Cardinality(row.lot_set) < Cardinality(blk.lot_set)
                    THEN Cardinality(row.lot_set) ELSE Cardinality(blk.lot_set)
       IN  /\ inter /= {}
           /\ ~(least >= 2 /\ Cardinality(inter) < 2)

agenda_fallback_match(row, agenda) ==
    /\ row.sheet_u \in AGENDA_FILTER_SHEETS
    /\ row.pemohon_key /= <<>>
    /\ row.lot_set /= {}
    /\ \E k \in 1..Len(agenda.blocks) : FallbackBlockMatches(row, agenda.blocks[k])

\* _keep without the test of the normalised head
keepTailSeriesFallback(r, agenda) ==
    IF r.sheet_u \notin AGENDA_FILTER_SHEETS THEN TRUE
    ELSE IF r.tail /= <<>> /\ r.tail \in agenda.tails_all THEN FALSE
    ELSE IF r.series_tail /= <<>> /\ r.series_tail \in agenda.series_tail_all THEN FALSE
    ELSE IF agenda_fallback_match(r, agenda) THEN FALSE
    ELSE TRUE

\* _keep without the test of the sheet
keepAnySheet(r, agenda) ==
    IF r.tail /= <<>> /\ r.tail \in agenda.tails_all THEN FALSE
    ELSE IF r.series_tail /= <<>> /\ r.series_tail \in agenda.series_tail_all THEN FALSE
    ELSE IF r.osc_head_norm /= <<>> /\ r.osc_head_norm \in agenda.osc_head_norm_all THEN FALSE
    ELSE IF agenda_fallback_match(r, agenda) THEN FALSE
    ELSE TRUE

\* build_categories._keep
keep(r, agenda) ==
    IF r.sheet_u \notin AGENDA_FILTER_SHEETS THEN TRUE
    ELSE IF r.tail /= <<>> /\ r.tail \in agenda.tails_all THEN FALSE
    ELSE IF r.series_tail /= <<>> /\ r.series_tail \in agenda.series_tail_all THEN FALSE
    ELSE IF r.osc_head_norm /= <<>> /\ r.osc_head_norm \in agenda.osc_head_norm_all THEN FALSE
    ELSE IF agenda_fallback_match(r, agenda) THEN FALSE
    ELSE TRUE

\* the agenda filter of build_categories; `agenda` is <<>> for None, else
\* <<index>>
agenda_filter(rows, agenda, agenda_enabled) ==
    IF agenda_enabled /\ agenda /= <<>>
    THEN SelectSeq(rows, LAMBDA r : keep(r, agenda[1]))
    ELSE rows

----------------------------------------------------------------------------
(* Classification: build_categories *)

tPB == <<"P", "e", "n", "g", "a", "r", "a", "h", " ", "P", "e", "r", "a", "n", "c", "a", "n", "g", " ", "B", "a", "n", "d", "a", "r">>
tBGN == <<"P", "e", "n", "g", "a", "r", "a", "h", " ", "B", "a", "n", "g", "u", "n", "a", "n">>
tKEJ == <<"P", "e", "n", "g", "a", "r", "a", "h", " ", "K", "e", "j", "u", "r", "u", "t", "e", "r", "a", "a", "n">>
tJL == <<"P", "e", "n", "g", "a", "r", "a", "h", " ", "L", "a", "n", "d", "s", "k", "a", "p">>
tCOB == <<"P", "e", "n", "g", "a", "r", "a", "h", " ", "C", "O", "B">>
tKES == <<"P", "e", "n", "g", "a", "r", "a", "h", " ", "K", "e", "s", "i", "h", "a", "t", "a", "n">>
tPEN == <<"P", "e", "n", "g", "a", "r", "a", "h", " ", "P", "e", "n", "i", "l", "a", "i", "a", "n">>
tPBRN == <<"P", "e", "n", "g", "a", "r", "a", "h", " ", "P", "e", "r", "b", "a", "n", "d", "a", "r", "a", "n">>
tLESEN == <<"P", "e", "n", "g", "a", "r", "a", "h", " ", "P", "e", "l", "e", "s", "e", "n", "a", "n">>
tPerancang == <<"P", "e", "n", "g", "a", "r", "a", "h", " ", "P", "e", "r", "a", "n", "c", "a", "n", "g">>
tSerentak == <<"(", "S", "e", "r", "e", "n", "t", "a", "k", ")">>
tSERENTAK == <<"(", "S", "E", "R", "E", "N", "T", "A", "K", ")">>
BAR == <<"|">>

DaerahRanks == <<dSPU, dSPS, dSPT>>

\* DAERAH_ORDER.get(daerah, 9)
DAERAH_ORDER(daerah) ==
    IF daerah \in Range(DaerahRanks)
    THEN (CHOOSE n \in 1..Len(DaerahRanks) : DaerahRanks[n] = daerah) - 1
    ELSE 9

UT_ALLOWED_SHEETS ==
    {cSERENTAK, cPKM, cBGN, cBGN_EVCB, cTKR_GUNA, cPKM_TUKARGUNA, cTKR}
SERENTAK_UT_ALLOWED_INDUK == {<<"P", "B">>, cPKM, cBGN}
UT_PRIMARY_ALLOWED == {cPKM, cTKR, cTKR_GUNA, cBGN, cEVCB, cEV, cTELCO}
UT_PRIMARY_DISALLOWED == {cKTUP, cLJUP, cJP, cPL, cPS, cSB, cCT, c204D, c124A}

\* the characters of the model's texts in code point order
CodePointOrder ==
    <<"\n", " ", "&", "(", ")", "+", ",", "-", ".", "/",
      "0", "1", "2", "3", "4", "5", "6", "7", "8", "9", ":",
      "A", "B", "C", "D", "E", "F", "G", "H", "I", "J", "K", "L", "M",
      "N", "O", "P", "Q", "R", "S", "T", "U", "V", "W", "X", "Y", "Z",
      "[", "_",
      "a", "b", "c", "d", "e", "f", "g", "h", "i", "j", "k", "l", "m",
      "n", "o", "p", "q", "r", "s", "t", "u", "v", "w", "x", "y", "z", "|">>

Ord(c) == CHOOSE n \in 1..Len(CodePointOrder) : CodePointOrder[n] = c

\* Python's a < b on strings
StrLess(a, b) ==
    LET d == {i \in 1..Len(a) : i <= Len(b) /\ a[i] /= b[i]}
    IN  IF d = {} THEN Len(a) < Len(b)
        ELSE Ord(a[Min(d)]) < Ord(b[Min(d)])

\* Python's a < b on tuples of integers / of strings
IntsLess(a, b) ==
    \E i \in 1..Len(a) : a[i] < b[i] /\ \A j \in 1..(i - 1) : a[j] = b[j]
StrsLess(a, b) ==
    \E i \in 1..Len(a) : StrLess(a[i], b[i]) /\ \A j \in 1..(i - 1) : a[j] = b[j]

\* a sort key is a tuple of integers followed by strings
KeyLess(a, b) == IntsLess(a.n, b.n) \/ (a.n = b.n /\ StrsLess(a.s, b.s))

\* list.sort(key = ...): a stable sort, keys[i] the key of lst[i]
StableSort(lst, keys) ==
    LET pos == [i \in 1..Len(lst) |->
                  1 + Cardinality({j \in 1..Len(lst) :
                        \/ KeyLess(keys[j], keys[i])
                        \/ (~KeyLess(keys[i], keys[j]) /\ j < i)})]
    IN  [p \in 1..Len(lst) |-> lst[CHOOSE i \in 1..Len(lst) : pos[i] = p]]

\* "".join of a list of texts
RECURSIVE Flat(_)
Flat(seqs) == IF seqs = <<>> THEN <<>> ELSE Head(seqs) \o Flat(Tail(seqs))

\* two decimal digits of n
TwoDigits(n) == <<CodePointOrder[11 + (n \div 10)], CodePointOrder[11 + (n % 10)]>>

\* d.strftime("%d.%m.%Y") and d.isoformat() for day d of January 2026; None
\* has neither method, and NoDate is outside the domain of both
DmyText == [d \in 1..31 |-> TwoDigits(d) \o <<".", "0", "1", ".", "2", "0", "2", "6">>]
IsoText == [d \in 1..31 |-> <<"2", "0", "2", "6", "-", "0", "1", "-">> \o TwoDigits(d)]
strftime_dmy(d) == DmyText[d]
isoformat(d) == IsoText[d]

\* in_range without the upper end of the window
in_range_open_end(d, start, end) == d /= NoDate /\ start <= d

in_range(d, start, end) == d /= NoDate /\ start <= d /\ d <= end

perkara_3lines(d) ==
    <<"P", "e", "n", "y", "e", "d", "i", "a", "a", "n", " ", "K", "e", "r", "t", "a", "s", "\n", "M", "e", "s", "y", "u", "a", "r", "a", "t", " ", "T", "a", "m", "a", "t", " ", "T", "e", "m", "p", "o", "h", "\n">>
        \o (IF d /= NoDate THEN strftime_dmy(d) ELSE <<>>)

keputusan_is_empty(v) ==
    \/ is_nan(v)
    \/ Strip(v) = <<>>
    \/ lower(Strip(v)) \in BlankWords
    \/ \A i \in 1..Len(Strip(v)) : Strip(v)[i] \in DashChars \cup WS

sheet_is_ut_allowed(sheet_u) ==
    LET s == canonical_sheet_name(sheet_u)
    IN  \/ s \in UT_ALLOWED_SHEETS
        \/ /\ Contains(<<"G", "U", "N", "A">>, s)
           /\ (Contains(cTKR, s) \/ Contains(<<"T", "U", "K", "A", "R">>, s) \/ s = <<"T", "G">>)

(* tindakan_ut *)

UnitWords == <<<<"J", "A", "B", "A", "T", "A", "N">>, <<"B", "A", "H", "A", "G", "I", "A", "N">>, <<"U", "N", "I", "T">>, <<"S", "E", "K", "S", "Y", "E", "N">>>>

\* re.sub(r"^(JABATAN|BAHAGIAN|UNIT|SEKSYEN)\s+", "", s)
DropUnitWord(s) ==
    LET hit == {n \in 1..Len(UnitWords) :
                  /\ OccursAt(UnitWords[n], s, 1)
                  /\ RunLen(s, Len(UnitWords[n]) + 1, WS) > 0}
    IN  IF hit = {} THEN s
        ELSE From(s, SkipWS(s, Len(UnitWords[Min(hit)]) + 1))

norm_token(x) ==
    SelectSeq(DropUnitWord(Strip(upper(x))), LAMBDA c : c \in UpperSet \cup Digits)

internal_map ==
    << <<<<"K", "E", "J">>, tKEJ>>, <<<<"K", "E", "J", "U", "R", "U", "T", "E", "R", "A", "A", "N">>, tKEJ>>,
       <<<<"P", "B">>, tPB>>, <<<<"P", "E", "R", "A", "N", "C", "A", "N", "G", "B", "A", "N", "D", "A", "R">>, tPB>>,
       <<<<"B", "G", "N">>, tBGN>>, <<<<"B", "A", "N", "G", "U", "N", "A", "N">>, tBGN>>,
       <<<<"C", "O", "B">>, tCOB>>, <<<<"P", "E", "S", "U", "R", "U", "H", "J", "A", "Y", "A", "B", "A", "N", "G", "U", "N", "A", "N">>, tCOB>>,
       <<<<"K", "E", "S">>, tKES>>, <<<<"K", "E", "S", "I", "H", "A", "T", "A", "N">>, tKES>>,
       <<<<"P", "E", "N">>, tPEN>>, <<<<"P", "E", "N", "I", "L", "A", "I", "A", "N">>, tPEN>>,
       <<<<"P", "B", "R", "N">>, tPBRN>>, <<<<"P", "E", "R", "B", "A", "N", "D", "A", "R", "A", "N">>, tPBRN>>,
       <<<<"L", "E", "S", "E", "N">>, tLESEN>>, <<<<"P", "E", "L", "E", "S", "E", "N", "A", "N">>, tLESEN>>,
       <<<<"J", "L">>, tJL>>, <<<<"L", "A", "N", "D", "S", "K", "A", "P">>, tJL>> >>

alias_substrings ==
    << <<<<"K", "E", "J", "U", "R", "U", "T", "E", "R", "A", "A", "N">>, tKEJ>>, <<<<"P", "E", "R", "A", "N", "C", "A", "N", "G", "B", "A", "N", "D", "A", "R">>, tPB>>,
       <<<<"B", "A", "N", "G", "U", "N", "A", "N">>, tBGN>>, <<<<"P", "E", "S", "U", "R", "U", "H", "J", "A", "Y", "A", "B", "A", "N", "G", "U", "N", "A", "N">>, tCOB>>,
       <<<<"K", "E", "S", "I", "H", "A", "T", "A", "N">>, tKES>>, <<<<"P", "E", "N", "I", "L", "A", "I", "A", "N">>, tPEN>>,
       <<<<"P", "E", "R", "B", "A", "N", "D", "A", "R", "A", "N">>, tPBRN>>, <<<<"P", "E", "L", "E", "S", "E", "N", "A", "N">>, tLESEN>>,
       <<<<"L", "A", "N", "D", "S", "K", "A", "P">>, tJL>> >>

\* the department title of the normalised token key, <<>> when it has none
MappedTitle(key) ==
    LET exact == {n \in 1..Len(internal_map) : internal_map[n][1] = key}
        sub == {n \in 1..Len(alias_substrings) : Contains(alias_substrings[n][1], key)}
    IN  IF exact /= {} THEN internal_map[Min(exact)][2]
        ELSE IF sub /= {} THEN alias_substrings[Min(sub)][2]
        ELSE <<>>

\* the stripped, non-empty, non-placeholder parts of the reviewer text
ReviewerParts(raw) ==
    LET cut == SplitAcc(raw, 1, <<>>, {",", "&", "/"})
        parts == [n \in 1..Len(cut) |-> Strip(cut[n])]
    IN  SelectSeq(parts, LAMBDA p : p /= <<>> /\ ~is_blankish_text(p))

TitlesOf(parts) ==
    LET internal == SelectSeq(parts, LAMBDA p : MappedTitle(norm_token(p)) /= <<>>)
        external == SelectSeq(parts, LAMBDA p : MappedTitle(norm_token(p)) = <<>>)
    IN  DedupSeq([n \in 1..Len(internal) |-> MappedTitle(norm_token(internal[n]))], {})
            \o DedupSeq([n \in 1..Len(external) |-> upper(external[n])], {})

tindakan_ut(belum_text) ==
    IF is_blankish_text(belum_text) THEN <<>>
    ELSE Strip(JoinLines(TitlesOf(ReviewerParts(Strip(belum_text)))))

(* build_categories *)

CatDigit(cat) == <<CodePointOrder[11 + cat]>>

make_rec(cat, tindakan, base_r, jenis, fail_no, perkara, extra_key) ==
    [ cat       |-> cat,
      tindakan  |-> tindakan,
      jenis     |-> jenis,
      fail_no   |-> fail_no,
      pemohon   |-> base_r.pemohon,
      daerah    |-> base_r.daerah,
      mukim     |-> base_r.mukim,
      lot       |-> base_r.lot,
      perkara   |-> perkara,
      dedup_key |-> CatDigit(cat) \o BAR \o tindakan \o BAR \o osc_norm(fail_no)
                        \o BAR \o pemohon_norm(base_r.pemohon) \o BAR \o extra_key ]

\* the parent keys in the order the rows first show them, and their groups
InduksOf(rows) == DedupSeq([k \in 1..Len(rows) |-> rows[k].fail_induk], {})

GroupsOf(rows, induks) ==
    [n \in 1..Len(induks) |-> SelectSeq(rows, LAMBDA r : r.fail_induk = induks[n])]

by_induk(rows) == GroupsOf(rows, InduksOf(rows))

\* min(km_dates) of the dates that are set, else None
EarliestKm(grp) ==
    LET ds == {grp[k].km_date : k \in 1..Len(grp)} \ {NoDate}
    IN  IF ds = {} THEN NoDate ELSE Min(ds)

\* max(cand_disp, key = len): the first of the longest
LongestFirst(cand) ==
    cand[Min({i \in 1..Len(cand) : \A j \in 1..Len(cand) : Len(cand[j]) <= Len(cand[i])})]

BestDisplay(grp) ==
    LET cand == SelectSeq([k \in 1..Len(grp) |-> grp[k].fail_no_disp], LAMBDA d : d /= <<>>)
    IN  IF cand /= <<>> THEN LongestFirst(cand) ELSE grp[1].fail_induk

\* the permit label followed by "(Serentak)" unless it says so already
WithSerentak(jenis) ==
    IF jenis = <<>> THEN tSerentak
    ELSE IF Contains(tSERENTAK, upper(jenis)) THEN jenis
    ELSE jenis \o <<" ">> \o tSerentak

JenisBest(is_ser, best) ==
    IF is_ser THEN WithSerentak(extract_jenis_from_fail_no_display(best))
    ELSE extract_jenis_from_fail_no_display(best)

\* what build_categories computes once per parent group
GroupWith(grp, is_ser, best) ==
    [ first       |-> grp[1],
      is_ser      |-> is_ser,
      union_codes |-> UNION {grp[k].codes : k \in 1..Len(grp)},
      km_date     |-> EarliestKm(grp),
      fail_no_disp_best |-> best,
      jenis_best  |-> JenisBest(is_ser, best) ]

GroupInfo(grp) ==
    GroupWith(grp, \E k \in 1..Len(grp) : grp[k].serentak, BestDisplay(grp))

\* g.get("fail_no_disp", "") or g["fail_no_raw"]
DisplayOf(g) == IF g.fail_no_disp /= <<>> THEN g.fail_no_disp ELSE g.fail_no_raw

OrElse(a, b) == IF a /= <<>> THEN a ELSE b

\* extract_jenis_from_fail_no_display(fail_no_disp) or g["sheet_u"]
JenisOfRow(g) == OrElse(extract_jenis_from_fail_no_display(DisplayOf(g)), g.sheet_u)

OneIf(cond, rec) == IF cond THEN <<rec>> ELSE <<>>

\* Cat1Ser with the building row only when there is no planning row
Cat1SerFirstDept(gi, km_start, km_end) ==
    IF gi.is_ser /\ in_range(gi.km_date, km_start, km_end)
    THEN IF gi.union_codes \cap (PB_CODES \ {cPS, cSB, cCT}) /= {}
         THEN <<make_rec(1, tPB, gi.first, gi.jenis_best, gi.fail_no_disp_best,
                         perkara_3lines(gi.km_date), <<"S", "E", "R", "-", "P", "B">>)>>
         ELSE OneIf(gi.union_codes \cap {cBGN, cEVCB, cEV, cTELCO} /= {},
                    make_rec(1, tBGN, gi.first, gi.jenis_best, gi.fail_no_disp_best,
                             perkara_3lines(gi.km_date), <<"S", "E", "R", "-", "B", "G", "N">>))
    ELSE <<>>

Cat1Ser(gi, km_start, km_end) ==
    IF gi.is_ser /\ in_range(gi.km_date, km_start, km_end)
    THEN OneIf(gi.union_codes \cap (PB_CODES \ {cPS, cSB, cCT}) /= {},
               make_rec(1, tPB, gi.first, gi.jenis_best, gi.fail_no_disp_best,
                        perkara_3lines(gi.km_date), <<"S", "E", "R", "-", "P", "B">>))
         \o OneIf(gi.union_codes \cap {cBGN, cEVCB, cEV, cTELCO} /= {},
                  make_rec(1, tBGN, gi.first, gi.jenis_best, gi.fail_no_disp_best,
                           perkara_3lines(gi.km_date), <<"S", "E", "R", "-", "B", "G", "N">>))
    ELSE <<>>

\* Cat1Row with a row for each department whatever the codes
Cat1RowBothDepts(g, km_start, km_end) ==
    IF in_range(g.km_date, km_start, km_end)
    THEN <<make_rec(1, tPB, g, JenisOfRow(g), DisplayOf(g), perkara_3lines(g.km_date), <<"N", "S", "-", "P", "B">>),
           make_rec(1, tBGN, g, JenisOfRow(g), DisplayOf(g), perkara_3lines(g.km_date), <<"N", "S", "-", "B", "G", "N">>)>>
    ELSE <<>>

\* Category 1 of one record of a group that is not concurrent
Cat1Row(g, km_start, km_end) ==
    IF in_range(g.km_date, km_start, km_end)
    THEN OneIf(g.codes \cap {cPKM, cTKR, cTKR_GUNA} /= {},
               make_rec(1, tPB, g, JenisOfRow(g), DisplayOf(g),
                        perkara_3lines(g.km_date), <<"N", "S", "-", "P", "B">>))
         \o OneIf(g.codes \cap {cBGN, cEVCB, cEV, cTELCO} /= {},
                  make_rec(1, tBGN, g, JenisOfRow(g), DisplayOf(g),
                           perkara_3lines(g.km_date), <<"N", "S", "-", "B", "G", "N">>))
    ELSE <<>>

\* the rows of each record of a group, one after the other
PerRow(grp, Rows(_)) == Flat([k \in 1..Len(grp) |-> Rows(grp[k])])

Cat1Of(grp, gi, km_start, km_end) ==
    IF gi.is_ser THEN Cat1Ser(gi, km_start, km_end)
    ELSE PerRow(grp, LAMBDA g : Cat1Row(g, km_start, km_end))

\* the SERENTAK-sheet guard of Category 2
SerentakSheetOk(g, pc) ==
    \/ g.sheet_u /= cSERENTAK
    \/ (pc /= <<>> /\ pc \in UT_PRIMARY_ALLOWED)
    \/ /\ pc = <<>>
       /\ (g.induk_code = <<>> \/ g.induk_code \in SERENTAK_UT_ALLOWED_INDUK)
       /\ g.codes \cap UT_PRIMARY_ALLOWED /= {}

\* Cat2Passes with a date, without the test of the technical-review window
Cat2PassesAnyWindow(g, pc, ut_start, ut_end) ==
    /\ sheet_is_ut_allowed(g.sheet_u)
    /\ g.ut_date /= NoDate
    /\ ~is_blankish_text(g.belum)
    /\ pc \notin UT_PRIMARY_DISALLOWED
    /\ (pc = <<>> \/ pc \in UT_PRIMARY_ALLOWED)
    /\ SerentakSheetOk(g, pc)
    /\ ~is_blankish_text(tindakan_ut(g.belum))

Cat2Passes(g, pc, ut_start, ut_end) ==
    /\ sheet_is_ut_allowed(g.sheet_u)
    /\ in_range(g.ut_date, ut_start, ut_end)
    /\ ~is_blankish_text(g.belum)
    /\ pc \notin UT_PRIMARY_DISALLOWED
    /\ (pc = <<>> \/ pc \in UT_PRIMARY_ALLOWED)
    /\ SerentakSheetOk(g, pc)
    /\ ~is_blankish_text(tindakan_ut(g.belum))

Cat2Jenis(g, gi) ==
    IF gi.is_ser
    THEN WithSerentak(OrElse(extract_jenis_from_fail_no_display(DisplayOf(g)), gi.jenis_best))
    ELSE JenisOfRow(g)

Cat2Rec(g, gi, pc) ==
    make_rec(2, tindakan_ut(g.belum), g, Cat2Jenis(g, gi), DisplayOf(g),
             <<"U", "l", "a", "s", "a", "n", " ", "t", "e", "k", "n", "i", "k", "a", "l", " ", "b", "e", "l", "u", "m", " ", "d", "i", "k", "e", "m", "u", "k", "a", "k", "a", "n", ".", " ", "T", "a", "m", "a", "t", " ", "T", "e", "m", "p", "o", "h", " ">>
                 \o strftime_dmy(g.ut_date) \o <<".">>,
             g.sheet_u \o BAR \o pc \o BAR \o isoformat(g.ut_date) \o BAR \o Strip(g.belum))

Cat2Row(g, gi, pc, ut_start, ut_end) ==
    IF Cat2Passes(g, pc, ut_start, ut_end) THEN <<Cat2Rec(g, gi, pc)>> ELSE <<>>

Cat2Of(grp, gi, ut_start, ut_end, ut_enabled) ==
    IF ut_enabled
    THEN PerRow(grp, LAMBDA g : Cat2Row(g, gi, Strip(upper(g.primary_code)), ut_start, ut_end))
    ELSE <<>>

\* a Category 3, 4 or 5 row of a concurrent group whose codes meet `codes`
SerRow(gi, cat, tindakan, codes, extra_key, km_start, km_end) ==
    OneIf(/\ gi.is_ser /\ in_range(gi.km_date, km_start, km_end)
          /\ gi.union_codes \cap codes /= {},
          make_rec(cat, tindakan, gi.first, gi.jenis_best, gi.fail_no_disp_best,
                   perkara_3lines(gi.km_date), extra_key))

\* a Category 3, 4 or 5 row of a record, not concurrent, on one of `sheets`
SheetRow(g, cat, tindakan, sheets, km_start, km_end) ==
    OneIf(in_range(g.km_date, km_start, km_end) /\ g.sheet_u \in sheets,
          make_rec(cat, tindakan, g, JenisOfRow(g), DisplayOf(g),
                   perkara_3lines(g.km_date), <<"N", "S", "-">> \o g.sheet_u))

Cat3Of(grp, gi, km_start, km_end) ==
    IF gi.is_ser THEN SerRow(gi, 3, tKEJ, KEJ_CODES, <<"S", "E", "R", "-", "K", "E", "J">>, km_start, km_end)
    ELSE PerRow(grp, LAMBDA g : SheetRow(g, 3, tKEJ, {cKTUP, cJP, cLJUP}, km_start, km_end))

Cat4Of(grp, gi, km_start, km_end) ==
    IF gi.is_ser THEN SerRow(gi, 4, tJL, JL_CODES, <<"S", "E", "R", "-", "J", "L">>, km_start, km_end)
    ELSE PerRow(grp, LAMBDA g : SheetRow(g, 4, tJL, {cPL}, km_start, km_end))

Cat5Of(grp, gi, km_start, km_end) ==
    IF gi.is_ser THEN SerRow(gi, 5, tPB, {c124A, c204D}, <<"S", "E", "R", "-", "1", "2", "4", "A", "2", "0", "4", "D">>, km_start, km_end)
    ELSE PerRow(grp, LAMBDA g : SheetRow(g, 5, tPB, {cPS, cSB, cCT}, km_start, km_end))

\* dedup_list: the first row of each dedup_key
\* dedup_list keeping the last row of each key
dedup_keep_last(lst) ==
    SelectSeq([i \in 1..Len(lst) |->
                  IF \E j \in (i + 1)..Len(lst) : lst[j].dedup_key = lst[i].dedup_key
                  THEN <<>> ELSE lst[i]],
              LAMBDA r : r /= <<>>)

dedup_list(lst) ==
    SelectSeq([i \in 1..Len(lst) |->
                  IF \E j \in 1..(i - 1) : lst[j].dedup_key = lst[i].dedup_key
                  THEN <<>> ELSE lst[i]],
              LAMBDA r : r /= <<>>)

\* SortKey1 with the district before the department
SortKey1DistrictFirst(r) ==
    [n |-> <<DAERAH_ORDER(r.daerah), IF OccursAt(tPerancang, r.tindakan, 1) THEN 0 ELSE 1>>,
     s |-> <<r.fail_no>>]

SortKey1(r) ==
    [n |-> <<IF OccursAt(tPerancang, r.tindakan, 1) THEN 0 ELSE 1, DAERAH_ORDER(r.daerah)>>,
     s |-> <<r.fail_no>>]
SortKey2(r) == [n |-> <<DAERAH_ORDER(r.daerah)>>, s |-> <<r.fail_no, r.tindakan>>]
SortKey3(r) == [n |-> <<DAERAH_ORDER(r.daerah)>>, s |-> <<r.fail_no>>]

\* Numbered counting from 0, as enumerate does without start=1
NumberedFromZero(lst) == [i \in 1..Len(lst) |-> lst[i] @@ [bil |-> i - 1]]

\* r["bil"] = i for the i-th row
Numbered(lst) == [i \in 1..Len(lst) |-> lst[i] @@ [bil |-> i]]

\* lst.sort(key = Key)
SortedBy(lst, Key(_)) == StableSort(lst, [i \in 1..Len(lst) |-> Key(lst[i])])

\* dedup_list, sort and numbering of one category list
Finished(lst, Key(_)) == Numbered(SortedBy(dedup_list(lst), Key))

\* the category lists of the groups, from the groups' summaries
Emitted(grps, gis, km_start, km_end, ut_start, ut_end, ut_enabled) ==
    << Flat([n \in 1..Len(grps) |-> Cat1Of(grps[n], gis[n], km_start, km_end)]),
       Flat([n \in 1..Len(grps) |-> Cat2Of(grps[n], gis[n], ut_start, ut_end, ut_enabled)]),
       Flat([n \in 1..Len(grps) |-> Cat3Of(grps[n], gis[n], km_start, km_end)]),
       Flat([n \in 1..Len(grps) |-> Cat4Of(grps[n], gis[n], km_start, km_end)]),
       Flat([n \in 1..Len(grps) |-> Cat5Of(grps[n], gis[n], km_start, km_end)]) >>

FinishedAll(e) ==
    << Finished(e[1], SortKey1), Finished(e[2], SortKey2), Finished(e[3], SortKey3),
       Finished(e[4], SortKey3), Finished(e[5], SortKey3) >>

CategoriesOf(grps, km_start, km_end, ut_start, ut_end, ut_enabled) ==
    FinishedAll(Emitted(grps, [n \in 1..Len(grps) |-> GroupInfo(grps[n])],
                        km_start, km_end, ut_start, ut_end, ut_enabled))

\* the rows with a blank decision
Undecided(rows) == SelectSeq(rows, LAMBDA r : keputusan_is_empty(r.keputusan))

build_categories(rows, agenda, km_start, km_end, ut_start, ut_end, ut_enabled, agenda_enabled) ==
    CategoriesOf(by_induk(agenda_filter(Undecided(rows), agenda, agenda_enabled)),
                 km_start, km_end, ut_start, ut_end, ut_enabled)

----------------------------------------------------------------------------
(* Reference strings used as inputs *)

yy15 == <<"1", "5">>
serU24 == <<"U", "2", "4", "-", "2", "5", "1", "1">>
serU6 == <<"U", "6">>
serU2 == <<"U", "2">>
tail0120 == <<"0", "1", "2", "0">>
tail0295 == <<"0", "2", "9", "5">>
tail40120 == <<"4", "0", "1", "2", "0">>
dMBSP == <<"M", ".", "B", ".", "S", ".", "P">>
dMBPS == <<"M", ".", "B", ".", "P", ".", "S">>
dMPSP == <<"M", ".", "P", ".", "S", ".", "P">>


head_spec == MkHead(cMBSP, yy15, serU24, tail0120)
head_u6 == MkHead(cMBSP, yy15, serU6, tail0295)

\* "MBSP/15/U24-2511/0120-PKM", the reference of the end-to-end scenario
ref_spec == MkRef(head_spec, cPKM)
\* a reference without permit suffix, marked as a revision
ref_rev == head_spec \o <<"(", "R", "E", "V", ")">>
ref_sb204d == MkRef(MkHead(cMPSP, yy15, serU6, tail0295), cSB \o <<"(">> \o c204D \o <<")">>)

\* two permit types after the tail, joined by "-"
ref_bgn_evcb == MkRef(head_u6, cBGN \o DASH \o cEVCB)
\* the permit type after a "/"
ref_slash == head_spec \o SL \o cPKM

\* the header line of an agenda item of permit type PKM
ln_hdr_pkm == <<"K", "E", "R", "T", "A", "S", " ", "M", "E", "S", "Y", "U", "A", "R", "A", "T", " ", "B", "I", "L", ".", " ", "O", "S", "C", "/", "P", "K", "M", "/", "0", "1", "/", "2", "0", "2", "6">>

\* the spellings of the agency prefix the normaliser is meant to unify
PrefixSpellings == {cMBSP, cMBPS, cMPSP, dMBSP, dMBPS, dMPSP}

----------------------------------------------------------------------------
(* Each specification leaves the variables of the others at rest *)

NoRes ==
    [ key_orig |-> <<>>, key |-> <<>>, key2 |-> <<>>, codes |-> {}, induk |-> <<>>,
      disp |-> <<>>, tail |-> <<>>, agenda_tails |-> {} ]

RefIdle ==
    /\ r_pc = "idle" /\ r_orig = <<>> /\ r_raw = <<>> /\ r_sheet = <<>>
    /\ r_edits = 0 /\ r_res = NoRes

MatchIdle ==
    /\ m_pc = "idle" /\ m_doc = <<>> /\ m_chunks = 0 /\ m_agenda = <<>>
    /\ m_enabled = FALSE /\ m_row = <<>> /\ m_kept = FALSE /\ m_fb = FALSE

TextIdle ==
    /\ t_pc = "idle" /\ t_parts = 0 /\ t_text = <<>> /\ t_out = <<>>

GenIdle ==
    /\ g_pc = "idle" /\ ui = <<>> /\ running = FALSE /\ agenda_index = <<>>
    /\ tasks = <<>> /\ merged = {} /\ g_rows = <<>> /\ g_cats = <<>>

----------------------------------------------------------------------------
(* SpecRef: the pure functions applied to one reference string *)

MaxEdits == 1

\* (reference, sheet) pairs the reference functions are exercised on
RefInputs ==
    { <<ref_spec, cPKM>>,
      <<MkRef(MkHead(cMBPS, yy15, serU6, tail0295), cBGN), cBGN>>,
      <<ref_sb204d, cSB>>,
      <<MkRef(head_u6, cPKM \o <<"+">> \o cBGN), cSERENTAK>>,
      <<ref_rev, cPKM>>,
      <<ref_bgn_evcb, cBGN_EVCB>>,
      <<ref_slash, cPKM>> }

InitRef ==
    /\ \E p \in RefInputs : r_orig = p[1] /\ r_sheet = p[2]
    /\ r_raw = r_orig
    /\ r_pc = "edit"
    /\ r_edits = 0
    /\ r_res = NoRes
    /\ MatchIdle
    /\ GenIdle
    /\ TextIdle

\* r' differs from r by one more separator or whitespace character
InsertSep ==
    /\ r_pc = "edit" /\ r_edits < MaxEdits
    /\ \E i \in 0..Len(r_raw), c \in SepPunct \cup {" "} :
          r_raw' = Upto(r_raw, i) \o <<c>> \o From(r_raw, i + 1)
    /\ r_edits' = r_edits + 1
    /\ UNCHANGED <<r_pc, r_orig, r_sheet, r_res, match_vars, gen_vars, text_vars>>

\* r' differs from r by one separator or whitespace character less
DeleteSep ==
    /\ r_pc = "edit" /\ r_edits < MaxEdits
    /\ \E i \in 1..Len(r_raw) :
          /\ r_raw[i] \in SepPunct \cup WS
          /\ r_raw' = Upto(r_raw, i - 1) \o From(r_raw, i + 1)
    /\ r_edits' = r_edits + 1
    /\ UNCHANGED <<r_pc, r_orig, r_sheet, r_res, match_vars, gen_vars, text_vars>>

\* r' spells the legacy agency prefix of r another way
RespellPrefix ==
    /\ r_pc = "edit" /\ r_edits < MaxEdits
    /\ \E v \in PrefixSpellings, w \in PrefixSpellings :
          /\ w /= v
          /\ OccursAt(v, r_raw, 1)
          /\ r_raw' = w \o From(r_raw, Len(v) + 1)
    /\ r_edits' = r_edits + 1
    /\ UNCHANGED <<r_pc, r_orig, r_sheet, r_res, match_vars, gen_vars, text_vars>>

\* the reference functions are applied to the original and to the variant
ApplyRef ==
    /\ r_pc = "edit"
    /\ r_pc' = "done"
    /\ r_res' = [key_orig |-> osc_norm(r_orig),
                 key      |-> osc_norm(r_raw),
                 codes    |-> extract_codes(r_raw, r_sheet),
                 key2     |-> osc_norm(osc_norm(r_raw)),
                 induk    |-> split_fail_induk(r_raw),
                 disp     |-> format_fail_no_display(r_raw),
                 tail     |-> extract_tail_only(r_raw),
                 agenda_tails |-> parse_agenda_docx(<<ln_hdr_pkm, r_raw>>).tails_all]
    /\ UNCHANGED <<r_orig, r_raw, r_sheet, r_edits, match_vars, gen_vars, text_vars>>

NextRef == InsertSep \/ DeleteSep \/ RespellPrefix \/ ApplyRef

SpecRef == InitRef /\ [][NextRef]_vars

----------------------------------------------------------------------------
(* SpecNotes: the reference functions applied to <head>-<suffix> followed by
   parenthetical notes *)

MaxNotes == 2

\* the permit-type suffixes: every code of the vocabulary, and two pairs
SuffixPool ==
    Range(KNOWN_CODES) \cup {cBGN \o DASH \o cEVCB, cPKM \o <<"+">> \o cBGN}

\* the notes written after a reference
NotePool == { <<"(", "J", "I", "L", "I", "D", " ", "2", ")">>, <<"(", "k", "o", "d", " ", "t", "a", "m", "a", "t", ")">>, <<"(", "T", "G", ")">>, <<"(", "S", "P", "E", "E", "D", ")">> }

InitNotes ==
    /\ \E h \in {head_u6, MkHead(cMBPS, yy15, serU24, tail0120)}, x \in SuffixPool,
          sh \in {cSERENTAK, cPKM} :
          r_orig = MkRef(h, x) /\ r_sheet = sh
    /\ r_raw = r_orig
    /\ r_pc = "edit"
    /\ r_edits = 0
    /\ r_res = NoRes
    /\ MatchIdle
    /\ GenIdle
    /\ TextIdle

\* one more parenthetical note after the reference
AddNote ==
    /\ r_pc = "edit" /\ r_edits < MaxNotes
    /\ \E note \in NotePool : r_raw' = r_raw \o <<" ">> \o note
    /\ r_edits' = r_edits + 1
    /\ UNCHANGED <<r_pc, r_orig, r_sheet, r_res, match_vars, gen_vars, text_vars>>

NextNotes == AddNote \/ ApplyRef

SpecNotes == InitNotes /\ [][NextNotes]_vars

----------------------------------------------------------------------------
(* SpecMatch: an agenda text is collected and parsed, a record is decided *)

ln_hdr_ptj == <<"K", "E", "R", "T", "A", "S", " ", "M", "E", "S", "Y", "U", "A", "R", "A", "T", " ", "B", "I", "L", ".", " ", "O", "S", "C", "/", "P", "T", "J", "/", "0", "2", "/", "2", "0", "2", "6">>
ln_ref_a == <<"N", "o", ".", " ", "R", "u", "j", "u", "k", "a", "n", " ", "O", "S", "C", " ", ":", " ", "M", "B", "S", "P", "/", "1", "5", "/", "U", "2", "4", "/", "0", "1", "2", "0", "-", "P", "K", "M">>
ln_pem_abc == <<"P", "e", "m", "o", "h", "o", "n", " ", ":", " ", "T", "e", "t", "u", "a", "n", " ", "A", "B", "C", " ", "S", "d", "n", " ", "B", "h", "d">>
ln_lot_2 == <<"L", "o", "t", " ", "1", "2", "3", "4", " ", "d", "a", "n", " ", "5", "6", "7", "8">>
nm_abc_ent == <<"A", "B", "C", " ", "E", "n", "t", "e", "r", "p", "r", "i", "s", "e">>
nm_xyz == <<"X", "Y", "Z", " ", "B", "e", "r", "h", "a", "d">>
lot_both == <<"1", "2", "3", "4", ",", " ", "5", "6", "7", "8">>
lot_one == <<"1", "2", "3", "4", ",", " ", "9", "9", "9", "9">>
lot_none == <<"7", "7">>
lot_single == <<"1", "2", "3", "4">>

MaxChunks == 4

\* the paragraphs the document reader may yield, each a sequence of lines
ChunkPool ==
    { <<ln_hdr_pkm>>, <<ln_hdr_ptj>>, <<ln_ref_a>>, <<ln_pem_abc, ln_lot_2>> }

\* what the deadline cells of the workbooks hold
cell_15 == <<"1", "5", "/", "0", "1", "/", "2", "0", "2", "6">>
cell_15_short == <<"1", "5", "-", "1", "-", "2", "0", "2", "6">>
cell_15_iso == <<"2", "0", "2", "6", "-", "0", "1", "-", "1", "5">>
cell_15_PB == <<"1", "5", "/", "0", "1", "/", "2", "0", "2", "6", " ", "(", "P", "B", ")">>
cell_30 == <<"3", "0", "/", "0", "1", "/", "2", "0", "2", "6">>
cell_30_KEJ == <<"3", "0", "/", "0", "1", "/", "2", "0", "2", "6", " ", "(", "k", "e", "j", ")">>
cell_32 == <<"3", "2", "/", "0", "1", "/", "2", "0", "2", "6">>
cell_tbc == <<"T", "B", "C">>

\* a row of which every cell is empty
NoCells ==
    [ daerah |-> dSPU, sheet |-> cPKM, fail |-> <<>>, pem |-> <<>>, mukim |-> <<>>,
      lot |-> <<>>, jenis |-> <<>>, km |-> <<>>, ut |-> <<>>, belum |-> <<>>,
      keputusan |-> <<>> ]

Cells(sheet, fail, pem, lot) ==
    [NoCells EXCEPT !.sheet = sheet, !.fail = fail, !.pem = pem, !.lot = lot]

\* the records whose suppression is decided
MatchRows ==
    { \* the tail 0120 of the agenda reference
      Cells(cPKM, MkRef(MkHead(cMBSP, yy15, serU24, tail0120), cPKM), nm_xyz, lot_none),
      \* no tail (the suffix follows a "/"), series and tail of the agenda reference
      Cells(cPKM, MkHead(cMBSP, yy15, serU24, tail0120) \o SL \o cPKM, nm_xyz, lot_none),
      \* another series and tail, the same normalised head
      Cells(cPKM, MkRef(MkHead(cMBSP, yy15, serU2, tail40120), cPKM), nm_xyz, lot_none),
      \* another reference; applicant and both lots of the agenda item
      Cells(cPKM, MkRef(head_u6, cPKM), nm_abc_ent, lot_both),
      \* the same, one lot only in common
      Cells(cPKM, MkRef(head_u6, cPKM), nm_abc_ent, lot_one),
      \* the same, its only lot a lot of the agenda item
      Cells(cPKM, MkRef(head_u6, cPKM), nm_abc_ent, lot_single),
      \* the same, no lot in common
      Cells(cPKM, MkRef(head_u6, cPKM), nm_abc_ent, lot_none),
      \* the same on a sheet of another permit type
      Cells(cBGN, MkRef(head_u6, cBGN), nm_abc_ent, lot_both),
      \* a sheet that is not filtered against the agenda
      Cells(cKTUP, MkRef(MkHead(cMBSP, yy15, serU24, tail0120), cKTUP), nm_abc_ent, lot_both) }

InitMatch ==
    /\ m_pc = "doc" /\ m_doc = <<>> /\ m_chunks = 0 /\ m_agenda = <<>>
    /\ m_enabled \in BOOLEAN
    /\ m_row = <<>> /\ m_kept = FALSE /\ m_fb = FALSE
    /\ RefIdle
    /\ GenIdle
    /\ TextIdle

\* _docx_collect_text: one more paragraph of the agenda
AppendChunk ==
    /\ m_pc = "doc" /\ m_chunks < MaxChunks
    /\ \E c \in ChunkPool : m_doc' = m_doc \o c
    /\ m_chunks' = m_chunks + 1
    /\ UNCHANGED <<m_pc, m_agenda, m_enabled, m_row, m_kept, m_fb, ref_vars, gen_vars, text_vars>>

\* parse_agenda_docx
ParseAgenda ==
    /\ m_pc = "doc"
    /\ m_agenda' = <<parse_agenda_docx(m_doc)>>
    /\ m_pc' = "parsed"
    /\ UNCHANGED <<m_doc, m_chunks, m_enabled, m_row, m_kept, m_fb, ref_vars, gen_vars, text_vars>>

\* enrich_rows and the agenda filter of build_categories on one record; no
\* index is supplied when the agenda was not parsed
\* the records the reader builds from the rows, after enrich_rows
MatchRecords == {enrich_row(MkRow(c)) : c \in MatchRows}

DecideRow(r) ==
    /\ m_row' = <<r>>
    /\ m_kept' = (agenda_filter(<<r>>, m_agenda, m_enabled) /= <<>>)
    /\ m_fb' = (m_agenda /= <<>> /\ agenda_fallback_match(r, m_agenda[1]))

Decide ==
    /\ m_pc \in {"doc", "parsed"}
    /\ \E r \in MatchRecords : DecideRow(r)
    /\ m_pc' = "decided"
    /\ UNCHANGED <<m_doc, m_chunks, m_agenda, m_enabled, ref_vars, gen_vars, text_vars>>

NextMatch == AppendChunk \/ ParseAgenda \/ Decide

SpecMatch == InitMatch /\ [][NextMatch]_vars

----------------------------------------------------------------------------
(* Spec: the generate action on the uploaded files *)

\* the text of the uploaded agenda, a sequence of lines
AgendaDoc == <<ln_hdr_pkm, ln_ref_a, ln_pem_abc, ln_lot_2>>

tail0301 == <<"0", "3", "0", "1">>
tail0302 == <<"0", "3", "0", "2">>
tail0303 == <<"0", "3", "0", "3">>
tail0304 == <<"0", "3", "0", "4">>
tail0305 == <<"0", "3", "0", "5">>
tail0306 == <<"0", "3", "0", "6">>

\* the rows of the uploaded workbooks, as the cells of a row
row_pkm ==
    [NoCells EXCEPT !.sheet = cPKM, !.fail = ref_spec, !.pem = nm_xyz, !.lot = lot_none,
                    !.km = cell_15, !.ut = cell_32, !.belum = <<"K", "E", "J">>]
row_pkm2 ==
    [NoCells EXCEPT !.sheet = cPKM, !.fail = MkRef(MkHead(cMPSP, yy15, serU6, tail0301), cPKM),
                    !.pem = nm_abc_ent, !.lot = lot_none, !.km = cell_15, !.ut = cell_15_short,
                    !.belum = <<"K", "E", "J", ",", " ", "J", "A", "B", "A", "T", "A", "N", " ", "A", "I", "R">>]
\* the same application entered again, with the mukim filled in and a later
\* technical-review date
row_pkm2_again == [row_pkm2 EXCEPT !.mukim = <<"1", "2">>, !.ut = cell_30]
row_ser_pkm ==
    [NoCells EXCEPT !.sheet = cSERENTAK, !.fail = MkRef(head_u6, cPKM), !.pem = nm_abc_ent,
                    !.lot = lot_none, !.km = cell_15_PB, !.ut = cell_15,
                    !.belum = <<"P", "B", " ", "&", " ", "B", "G", "N">>]
row_ser_bgn ==
    [NoCells EXCEPT !.sheet = cSERENTAK, !.fail = MkRef(head_u6, cBGN), !.pem = nm_xyz,
                    !.lot = lot_none, !.jenis = cBGN, !.km = cell_30_KEJ, !.ut = cell_15_iso,
                    !.belum = <<"k", "e", "j">>]
row_ktup ==
    [NoCells EXCEPT !.sheet = cKTUP, !.fail = MkRef(MkHead(cMBSP, yy15, serU2, tail40120), cKTUP),
                    !.pem = nm_xyz, !.km = cell_15]
row_pl ==
    [NoCells EXCEPT !.sheet = cPL, !.fail = MkRef(MkHead(cMBSP, yy15, serU2, tail0301), cPL),
                    !.pem = nm_xyz, !.km = cell_30]
row_decided ==
    [NoCells EXCEPT !.sheet = cPKM, !.fail = MkRef(MkHead(cMBSP, yy15, serU2, tail0302), cPKM),
                    !.pem = nm_xyz, !.km = cell_15, !.keputusan = <<"L", "U", "L", "U", "S">>]
row_pkm_sps ==
    [NoCells EXCEPT !.sheet = cPKM,
                    !.fail = MkRef(MkHead(cMBSP, yy15, serU2, tail0303), cPKM),
                    !.pem = nm_xyz, !.km = cell_15]
\* concurrent filings of the survey, the special, the engineering and the
\* landscape permit types
row_ser_ps ==
    [NoCells EXCEPT !.sheet = cSERENTAK,
                    !.fail = MkRef(MkHead(cMBSP, yy15, serU2, tail0304), cPS),
                    !.pem = nm_xyz, !.km = cell_15]
row_ser_204d ==
    [NoCells EXCEPT !.sheet = cSERENTAK,
                    !.fail = MkRef(MkHead(cMBSP, yy15, serU2, tail0305), c204D),
                    !.pem = nm_xyz, !.km = cell_15]
row_ser_ktup ==
    [NoCells EXCEPT !.sheet = cSERENTAK,
                    !.fail = MkRef(MkHead(cMBSP, yy15, serU2, tail0306), cKTUP),
                    !.pem = nm_xyz, !.km = cell_30]
row_ser_pl ==
    [NoCells EXCEPT !.sheet = cSERENTAK,
                    !.fail = MkRef(MkHead(cMBSP, yy15, serU2, tail0306), cPL),
                    !.pem = nm_xyz, !.km = cell_15]
row_ps ==
    [NoCells EXCEPT !.sheet = cPS, !.fail = MkRef(MkHead(cMBSP, yy15, serU6, tail0302), cPS),
                    !.pem = nm_abc_ent, !.km = cell_15]
row_bgn ==
    [NoCells EXCEPT !.sheet = cBGN, !.fail = MkRef(MkHead(cMBSP, yy15, serU2, tail0295), cBGN),
                    !.pem = nm_abc_ent, !.km = cell_15, !.ut = cell_15, !.belum = <<"-">>]
row_tkr ==
    [NoCells EXCEPT !.sheet = cTKR, !.fail = MkRef(MkHead(cMBSP, yy15, serU2, tail0301), cTKR),
                    !.pem = nm_abc_ent, !.km = cell_tbc, !.ut = cell_15, !.belum = <<"J", "L">>]
row_summary ==
    [NoCells EXCEPT !.sheet = <<"R", "I", "N", "G", "K", "A", "S", "A", "N">>, !.fail = ref_spec, !.pem = nm_xyz, !.km = cell_15]

\* the uploaded workbooks: whether the bytes open as a workbook, and the rows
file_spu_a == [zip_ok |-> TRUE, rows |-> <<row_pkm, row_pkm2, row_ser_pkm>>]
file_spu_b == [zip_ok |-> TRUE, rows |-> <<row_ser_bgn, row_pkm2_again>>]
file_sps ==
    [ zip_ok |-> TRUE,
      rows |-> << row_ktup, row_pl, row_decided, row_pkm_sps, row_ser_ps, row_ser_204d,
                  row_ser_ktup, row_ser_pl >> ]
file_spt == [zip_ok |-> TRUE, rows |-> <<row_ps, NoCells, row_bgn, row_tkr, row_summary>>]
file_bad == [zip_ok |-> FALSE, rows |-> <<>>]

\* the agenda upload: a Word document with its lines of text, or bytes that
\* are no Word document, which Document(io.BytesIO(file_bytes)) rejects
agenda_docx == [zip_ok |-> TRUE, lines |-> AgendaDoc]
agenda_bad == [zip_ok |-> FALSE, lines |-> <<>>]

\* what the three uploaders may hold
Uploads ==
    { [spu |-> <<file_spu_a, file_spu_b>>, sps |-> <<file_sps>>, spt |-> <<file_spt>>],
      [spu |-> <<file_spu_a>>, sps |-> <<file_sps>>, spt |-> <<file_spt>>],
      [spu |-> <<file_spu_a>>, sps |-> <<file_bad>>, spt |-> <<file_spt>>],
      [spu |-> <<>>, sps |-> <<file_sps>>, spt |-> <<file_spt>>],
      [spu |-> <<file_spu_a, file_spu_b, file_spu_a>>, sps |-> <<file_sps>>,
       spt |-> <<file_spt>>] }

\* _parse_ddmmyyyy of the two KM date fields
KmInputs == {<<8, 27>>, <<27, 8>>, <<NoDate, 27>>}

\* the UT checkbox and _parse_ddmmyyyy of the two UT date fields; the
\* fields are empty when the checkbox is not ticked
UtInputs == {<<FALSE, NoDate, NoDate>>, <<TRUE, 8, 27>>, <<TRUE, 27, 8>>, <<TRUE, 8, NoDate>>}

\* the values of the widgets when the button is pressed
UiInputs ==
    { [ agenda_file |-> a, proceed_without_agenda |-> p,
        spu_files |-> u.spu, sps_files |-> u.sps, spt_files |-> u.spt,
        km_start |-> k[1], km_end |-> k[2],
        ut_enabled |-> t[1], ut_start |-> t[2], ut_end |-> t[3] ] :
      a \in {<<>>, <<agenda_docx>>, <<agenda_bad>>}, p \in BOOLEAN, u \in Uploads,
      k \in KmInputs, t \in UtInputs }

NoCats == <<<<>>, <<>>, <<>>, <<>>, <<>>>>

Init ==
    /\ g_pc = "ready"
    /\ ui \in UiInputs
    /\ running = FALSE
    /\ agenda_index = <<>>
    /\ tasks = <<>>
    /\ merged = {}
    /\ g_rows = <<>>
    /\ g_cats = NoCats
    /\ RefIdle
    /\ MatchIdle
    /\ TextIdle

\* the input checks of the action, each of which ends in st.stop()
InputsValid(u) ==
    /\ (u.proceed_without_agenda \/ u.agenda_file /= <<>>)
    /\ Len(u.spu_files) > 0 /\ Len(u.sps_files) > 0 /\ Len(u.spt_files) > 0
    /\ Len(u.spu_files) <= 2 /\ Len(u.sps_files) <= 2 /\ Len(u.spt_files) <= 2
    /\ u.km_start /= NoDate /\ u.km_end /= NoDate
    /\ u.km_start <= u.km_end
    /\ (u.ut_enabled =>
          /\ u.ut_start /= NoDate /\ u.ut_end /= NoDate
          /\ u.ut_start <= u.ut_end)

\* the button is pressed: it is enabled while running is false
Generate ==
    /\ g_pc = "ready" /\ ~running
    /\ running' = TRUE
    /\ g_pc' = "validate"
    /\ UNCHANGED <<ui, agenda_index, tasks, merged, g_rows, g_cats, ref_vars, match_vars, text_vars>>

ValidateStop ==
    /\ g_pc = "validate" /\ ~InputsValid(ui)
    /\ g_pc' = "stopped"
    /\ UNCHANGED <<ui, running, agenda_index, tasks, merged, g_rows, g_cats, ref_vars, match_vars, text_vars>>

ValidateOk ==
    /\ g_pc = "validate" /\ InputsValid(ui)
    /\ g_pc' = "agenda"
    /\ UNCHANGED <<ui, running, agenda_index, tasks, merged, g_rows, g_cats, ref_vars, match_vars, text_vars>>

\* the agenda is enabled and its upload is no Word document
AgendaRejected(u) == ~u.proceed_without_agenda /\ ~u.agenda_file[1].zip_ok

\* the script run passes the agenda step
AgendaStep ==
    g_pc = "agenda" /\ ~AgendaRejected(ui) /\ g_pc' = "submit" /\ UNCHANGED merged

\* agenda_index = parse_agenda_docx(...) if agenda_enabled, else None
IndexAgenda ==
    /\ AgendaStep
    /\ agenda_index' = IF ~ui.proceed_without_agenda
                       THEN <<parse_agenda_docx(ui.agenda_file[1].lines)>>
                       ELSE <<>>
    /\ UNCHANGED <<ui, running, tasks, g_rows, g_cats, ref_vars, match_vars, text_vars>>

\* parse_agenda_docx raises on an upload that is no Word document
AgendaFails ==
    /\ g_pc = "agenda" /\ AgendaRejected(ui)
    /\ g_pc' = "failed"
    /\ UNCHANGED <<ui, running, agenda_index, tasks, merged, g_rows, g_cats, ref_vars, match_vars, text_vars>>

TasksOf(files, daerah) == [n \in 1..Len(files) |-> [file |-> files[n], daerah |-> daerah]]

\* one read task per file is submitted, SPU then SPS then SPT
SubmitReads ==
    /\ g_pc = "submit"
    /\ tasks' = TasksOf(ui.spu_files, dSPU) \o TasksOf(ui.sps_files, dSPS)
                    \o TasksOf(ui.spt_files, dSPT)
    /\ g_pc' = "reading"
    /\ UNCHANGED <<ui, running, agenda_index, merged, g_rows, g_cats, ref_vars, match_vars, text_vars>>

AllowedUpper == {upper(s) : s \in ALLOWED_SHEETS}

\* the records of the rows of a workbook: the rows of the sheets that are
\* allowed, but for the rows with neither reference nor applicant
RecordsOf(recs) ==
    SelectSeq(recs, LAMBDA r : /\ upper(r.sheet) \in AllowedUpper
                               /\ ~(r.fail_no_disp = <<>> /\ r.pemohon = <<>>))

read_kertas_excel_ultra(file, daerah_label) ==
    RecordsOf([k \in 1..Len(file.rows) |->
                  MkRow([file.rows[k] EXCEPT !.daerah = daerah_label])])

\* as_completed yields a task that read its workbook
TaskYielded(t) ==
    tasks[t].file.zip_ok /\ merged' = merged \cup {t} /\ UNCHANGED g_pc

\* for fut in as_completed(tasks): rows += fut.result(), a task that read
\* its workbook
MergeCompleted ==
    /\ g_pc = "reading"
    /\ \E t \in (1..Len(tasks)) \ merged :
          /\ TaskYielded(t)
          /\ g_rows' = g_rows \o read_kertas_excel_ultra(tasks[t].file, tasks[t].daerah)
    /\ UNCHANGED <<ui, running, agenda_index, tasks, g_cats, ref_vars, match_vars, text_vars>>

\* fut.result() of a task whose bytes are no workbook raises
ReadFails ==
    /\ g_pc = "reading"
    /\ \E t \in (1..Len(tasks)) \ merged : ~tasks[t].file.zip_ok
    /\ g_pc' = "failed"
    /\ UNCHANGED <<ui, running, agenda_index, tasks, merged, g_rows, g_cats, ref_vars, match_vars, text_vars>>

\* build_categories with the arguments the action passes
Classified(enriched, index, u) ==
    build_categories(enriched, index, u.km_start, u.km_end,
                     IF u.ut_enabled THEN u.ut_start ELSE u.km_start,
                     IF u.ut_enabled THEN u.ut_end ELSE u.km_end,
                     u.ut_enabled, ~u.proceed_without_agenda)

ClassifyRows(enriched) ==
    /\ g_rows' = enriched
    /\ g_cats' = Classified(enriched, agenda_index, ui)

\* Classify without waiting for the read tasks still running
ClassifyEarly ==
    /\ g_pc = "reading"
    /\ ClassifyRows(enrich_rows(g_rows))
    /\ g_pc' = "classified"
    /\ UNCHANGED <<ui, running, agenda_index, tasks, merged, ref_vars, match_vars, text_vars>>

\* the loop over as_completed is over and the script run goes on
LoopLeft ==
    /\ g_pc = "reading" /\ merged = 1..Len(tasks)
    /\ g_pc' = "classified" /\ UNCHANGED merged

\* rows = enrich_rows(rows); cat1, ..., cat5 = build_categories(...)
Classify ==
    /\ LoopLeft
    /\ ClassifyRows(enrich_rows(g_rows))
    /\ UNCHANGED <<ui, running, agenda_index, tasks, ref_vars, match_vars, text_vars>>

\* build_word_doc and the download button
BuildDoc ==
    /\ g_pc = "classified"
    /\ g_pc' = "built"
    /\ UNCHANGED <<ui, running, agenda_index, tasks, merged, g_rows, g_cats, ref_vars, match_vars, text_vars>>

\* the flag reset at the end of the try block and in the except clause
\* only, which st.stop() passes by
FinallyUnlessStopped ==
    /\ g_pc \in {"failed", "built"}
    /\ running' = FALSE
    /\ g_pc' = "ended"
    /\ UNCHANGED <<ui, agenda_index, tasks, merged, g_rows, g_cats, ref_vars, match_vars, text_vars>>

\* finally: st.session_state.running = False
Finally ==
    /\ g_pc \in {"stopped", "failed", "built"}
    /\ running' = FALSE
    /\ g_pc' = "ended"
    /\ UNCHANGED <<ui, agenda_index, tasks, merged, g_rows, g_cats, ref_vars, match_vars, text_vars>>

Next ==
    \/ Generate \/ ValidateStop \/ ValidateOk \/ IndexAgenda \/ AgendaFails
    \/ SubmitReads \/ MergeCompleted \/ ReadFails \/ Classify \/ BuildDoc
    \/ Finally

Spec == Init /\ [][Next]_vars

\* a step of the script run once the button is pressed, by the position it
\* leaves and the read task it merges
ScriptStep ==
    \/ ValidateStop \/ ValidateOk \/ AgendaStep \/ AgendaFails \/ SubmitReads
    \/ (g_pc = "reading" /\ \E t \in (1..Len(tasks)) \ merged : TaskYielded(t))
    \/ ReadFails \/ LoopLeft \/ BuildDoc \/ Finally

\* the script run goes on to its end: the interpreter executes the next
\* statement, as_completed yields every read task, st.stop() and a raised
\* exception unwind to the finally clause; pressing the button is up to the
\* user and under no fairness
SpecLive == Spec /\ WF_<<g_pc, merged>>(ScriptStep)

\* the script run has a step to take exactly while it is under way
ScriptStepEnabled ==
    (g_pc \notin {"ready", "ended"}) <=> ENABLED <<ScriptStep>>_<<g_pc, merged>>

----------------------------------------------------------------------------
(* SpecText: an outstanding-reviewer text is typed and mapped by tindakan_ut *)

MaxParts == 3

\* what is typed between separators in the outstanding-reviewer column
PartPool ==
    { <<"K", "E", "J">>, <<"J", "A", "B", "A", "T", "A", "N", " ", "A", "I", "R">>, <<"-">>, <<"p", "b">>, <<"T", "N", "B">>,
      <<"J", "a", "b", "a", "t", "a", "n", " ", "P", "e", "s", "u", "r", "u", "h", "j", "a", "y", "a", " ", "B", "a", "n", "g", "u", "n", "a", "n", " ", "M", "B", "S", "P">> }

PartSeps == { <<",", " ">>, <<" ", "&", " ">> }

InitText ==
    /\ t_pc = "draft"
    /\ t_parts = 0
    /\ t_text = <<>>
    /\ t_out = <<>>
    /\ RefIdle
    /\ MatchIdle
    /\ GenIdle

\* one more part is typed, after a separator when it is not the first
TypePart ==
    /\ t_pc = "draft" /\ t_parts < MaxParts
    /\ \E p \in PartPool, sep \in PartSeps :
          t_text' = IF t_parts = 0 THEN p ELSE t_text \o sep \o p
    /\ t_parts' = t_parts + 1
    /\ UNCHANGED <<t_pc, t_out, ref_vars, match_vars, gen_vars>>

\* tindakan = tindakan_ut(g["belum"])
MapReviewers ==
    /\ t_pc = "draft" /\ t_parts > 0
    /\ t_pc' = "mapped"
    /\ t_out' = tindakan_ut(t_text)
    /\ UNCHANGED <<t_parts, t_text, ref_vars, match_vars, gen_vars>>

NextText == TypePart \/ MapReviewers

SpecText == InitText /\ [][NextText]_vars

----------------------------------------------------------------------------
(* Claims on the reference functions *)

\* a known code immediately followed by a bracketed qualifier: CODE(QUAL)
BracketQualified(s) ==
    \E i \in 1..Len(s), j \in 1..Len(s) :
        /\ i < j /\ s[i] = "(" /\ s[j] = ")"
        /\ \A k \in (i + 1)..(j - 1) : s[k] \notin {"(", ")"}
        /\ \E n \in 1..Len(KNOWN_CODES) :
              /\ OccursAt(KNOWN_CODES[n], s, i - Len(KNOWN_CODES[n]))
              /\ (i - Len(KNOWN_CODES[n]) = 1
                    \/ s[i - Len(KNOWN_CODES[n]) - 1] \in CodeSeps)

\* C3: extract_codes of a reference in which a known code is immediately
\* followed by a bracketed sub-type qualifier (SB(204D)), on sheet SB, is
\* exactly {SB}: the qualifier is not added as a code of its own.
C3_BracketQualifierNotACode ==
    (r_pc = "done" /\ r_raw = r_orig /\ r_sheet = cSB /\ BracketQualified(r_raw))
        => r_res.codes = {cSB}

\* C4: a reference that differs from another only by separator punctuation,
\* whitespace or the spelling of the legacy prefix has the same matching key.
C4_KeyIgnoresSeparatorsAndPrefix ==
    r_pc = "done" => r_res.key = r_res.key_orig

----------------------------------------------------------------------------
(* Claims on the agenda index and the cross-reference matcher *)

\* the positions of the blocks of index a whose header is not a PTJ header
OpenBlocks(a) == {k \in 1..Len(a.blocks) : ~a.blocks[k].is_ptj}

\* C1: the tail set, the series+tail set and the normalised-head set of a
\* parsed agenda are exactly the unions over the blocks that are not PTJ
\* blocks; a PTJ block adds nothing to any of them
C1_IndexIsUnionOfNonPtjBlocks ==
    m_agenda /= <<>> =>
        /\ m_agenda[1].tails_all =
              UNION {m_agenda[1].blocks[k].tails : k \in OpenBlocks(m_agenda[1])}
        /\ m_agenda[1].series_tail_all =
              UNION {m_agenda[1].blocks[k].series_tail_keys : k \in OpenBlocks(m_agenda[1])}
        /\ m_agenda[1].osc_head_norm_all =
              {osc_norm(h) : h \in UNION {Range(m_agenda[1].blocks[k].osc_heads) :
                                             k \in OpenBlocks(m_agenda[1])}}

\* a parsed agenda with a PTJ block that holds a reference whose tail is in
\* no set of the index
C1_Witness ==
    /\ m_agenda /= <<>>
    /\ \E k \in 1..Len(m_agenda[1].blocks) :
          /\ m_agenda[1].blocks[k].is_ptj
          /\ m_agenda[1].blocks[k].tails /= {}
          /\ m_agenda[1].blocks[k].osc_heads /= <<>>
          /\ m_agenda[1].blocks[k].tails \cap m_agenda[1].tails_all = {}

\* the index built from the blocks of index a that are not PTJ blocks
WithoutPtj(a) == IndexOf(SelectSeq(a.blocks, LAMBDA b : ~b.is_ptj))

\* C2: whether a record is suppressed is the same under the agenda and under
\* the agenda with every PTJ block removed, in every tier
C2_PtjBlocksNeverDecide ==
    (m_pc = "decided" /\ m_agenda /= <<>>) =>
        m_kept = (agenda_filter(m_row, <<WithoutPtj(m_agenda[1])>>, m_enabled) /= <<>>)

\* a record kept although a PTJ block holds its applicant and both its lots
C2_Witness ==
    /\ m_pc = "decided" /\ m_agenda /= <<>> /\ m_enabled /\ m_kept
    /\ m_row[1].sheet_u \in AGENDA_FILTER_SHEETS
    /\ \E k \in 1..Len(m_agenda[1].blocks) :
          /\ m_agenda[1].blocks[k].is_ptj
          /\ m_agenda[1].blocks[k].pemohon_key = m_row[1].pemohon_key
          /\ m_agenda[1].blocks[k].pemohon_key /= <<>>
          /\ m_row[1].lot_set \subseteq m_agenda[1].blocks[k].lot_set
          /\ m_row[1].lot_set /= {}

\* the record of a decided state is one the agenda filter looks at
Filtered ==
    /\ m_pc = "decided" /\ m_enabled /\ m_agenda /= <<>>
    /\ m_row[1].sheet_u \in AGENDA_FILTER_SHEETS

TailTier == m_row[1].tail /= <<>> /\ m_row[1].tail \in m_agenda[1].tails_all
SeriesTier ==
    m_row[1].series_tail /= <<>> /\ m_row[1].series_tail \in m_agenda[1].series_tail_all
HeadTier ==
    m_row[1].osc_head_norm /= <<>> /\ m_row[1].osc_head_norm \in m_agenda[1].osc_head_norm_all

\* C6 as stated: a filtered record is suppressed exactly when its tail, its
\* series+tail key or the fallback matches
C6_ThreeTiersOnly ==
    Filtered => (~m_kept <=> (TailTier \/ SeriesTier \/ m_fb))

\* C6, amended: a filtered record is suppressed exactly when its tail, its
\* series+tail key, its normalised head or the fallback matches
C6_FourTiers ==
    Filtered => (~m_kept <=> (TailTier \/ SeriesTier \/ HeadTier \/ m_fb))

\* a record suppressed by its normalised head alone
C6_Witness ==
    Filtered /\ ~m_kept /\ ~TailTier /\ ~SeriesTier /\ ~m_fb /\ HeadTier

\* C7: a record of a sheet outside AGENDA_FILTER_SHEETS is kept, and every
\* record is kept when the filter is off or there is no index
C7_OnlyFilterSheetsSuppressed ==
    (m_pc = "decided"
        /\ (canonical_sheet_name(m_row[1].sheet) \notin AGENDA_FILTER_SHEETS
               \/ ~m_enabled \/ m_agenda = <<>>))
        => m_kept

\* a record of sheet KTUP kept with the filter on although the index holds
\* its tail and a block holds its applicant and lots
C7_Witness ==
    /\ m_pc = "decided" /\ m_enabled /\ m_agenda /= <<>> /\ m_kept
    /\ m_row[1].sheet = cKTUP
    /\ m_row[1].tail \in m_agenda[1].tails_all
    /\ \E k \in OpenBlocks(m_agenda[1]) :
          /\ m_agenda[1].blocks[k].pemohon_key = m_row[1].pemohon_key
          /\ m_agenda[1].blocks[k].lot_set = m_row[1].lot_set

\* C8: the fallback matches only if some block that is not a PTJ block has
\* the record's applicant key, not empty, and shares a lot token with it
C8_FallbackNeedsApplicantAndLot ==
    (m_pc = "decided" /\ m_fb) =>
        \E k \in OpenBlocks(m_agenda[1]) :
            /\ pemohon_norm(m_row[1].pemohon) /= <<>>
            /\ m_agenda[1].blocks[k].pemohon_key = pemohon_norm(m_row[1].pemohon)
            /\ lot_tokens(m_row[1].lot) \cap m_agenda[1].blocks[k].lot_set /= {}

\* the fallback matches "ABC Enterprise" with the item of "Tetuan ABC Sdn Bhd"
C8_Witness ==
    /\ m_pc = "decided" /\ m_fb
    /\ m_row[1].pemohon = nm_abc_ent
    /\ ~TailTier /\ ~SeriesTier /\ ~HeadTier /\ ~m_kept

----------------------------------------------------------------------------
(* Claims on the generate action and the classification *)

\* the rows of the read tasks appended in the order of submission
RowsAsSubmitted ==
    Flat([t \in 1..Len(tasks) |-> read_kertas_excel_ultra(tasks[t].file, tasks[t].daerah)])

\* C5: for fixed files and a fixed agenda the five category lists (rows,
\* every field of each row, and the order) are the same for every order in
\* which the read tasks complete: they are the lists of the order of
\* submission.
C5_ListsIndependentOfCompletionOrder ==
    g_pc = "classified" =>
        g_cats = Classified(enrich_rows(RowsAsSubmitted), agenda_index, ui)

\* the records build_categories groups: blank decision, not suppressed
KeptRows == agenda_filter(Undecided(g_rows), agenda_index, ~ui.proceed_without_agenda)

\* the reference s reads <head>/<tail>-PKM, the tail of 3 to 5 digits
PkmForm(s) ==
    \E k \in 3..5 :
        /\ Len(s) > k + 6
        /\ From(s, Len(s) - 3) = DASH \o cPKM
        /\ \A i \in (Len(s) - 3 - k)..(Len(s) - 4) : s[i] \in Digits
        /\ s[Len(s) - 4 - k] = "/"

\* record r is the only record of its parent group, is not concurrent, lies
\* on sheet PKM with a reference <head>/<tail>-PKM, and its process deadline
\* is in the KM window
SinglePkm(r, kept) ==
    /\ Len(SelectSeq(kept, LAMBDA x : x.fail_induk = r.fail_induk)) = 1
    /\ ~r.serentak
    /\ r.sheet_u = cPKM
    /\ PkmForm(r.fail_no_disp)
    /\ in_range(r.km_date, ui.km_start, ui.km_end)

\* the Category-1 rows that carry the display reference d
Cat1For(d) == SelectSeq(g_cats[1], LAMBDA x : x.fail_no = d)

\* C9: a single record, not concurrent, with blank decision and not
\* suppressed by the agenda, on sheet PKM with a reference <head>/<tail>-PKM
\* and a process deadline in the KM window yields exactly one Category-1
\* row: department "Pengarah Perancang Bandar", permit label "PKM", and no
\* row of the building department.
C9_SinglePkmRecordOneRow ==
    g_pc = "classified" =>
        \A i \in 1..Len(KeptRows) :
            SinglePkm(KeptRows[i], KeptRows) =>
                /\ Len(Cat1For(KeptRows[i].fail_no_disp)) = 1
                /\ Cat1For(KeptRows[i].fail_no_disp)[1].tindakan = tPB
                /\ Cat1For(KeptRows[i].fail_no_disp)[1].jenis = cPKM

\* such a record is classified while the agenda is in use
C9_Witness ==
    /\ g_pc = "classified"
    /\ agenda_index /= <<>>
    /\ \E i \in 1..Len(KeptRows) :
          /\ SinglePkm(KeptRows[i], KeptRows)
          /\ Cat1For(KeptRows[i].fail_no_disp) /= <<>>

KeptGroups == by_induk(KeptRows)

\* group grp is concurrent, its earliest process deadline is in the KM
\* window, and its codes meet the planning subset and the building subset
SerBoth(gi) ==
    /\ gi.is_ser
    /\ in_range(gi.km_date, ui.km_start, ui.km_end)
    /\ gi.union_codes \cap (PB_CODES \ {cPS, cSB, cCT}) /= {}
    /\ gi.union_codes \cap {cBGN, cEVCB, cEV, cTELCO} /= {}

\* the Category-1 rows emitted for single records
Cat1Individual ==
    SelectSeq(g_cats[1], LAMBDA x : \E k \in {<<"|", "N", "S", "-", "P", "B">>, <<"|", "N", "S", "-", "B", "G", "N">>} :
                  OccursAt(k, x.dedup_key, Len(x.dedup_key) - Len(k) + 1))

\* C10: a concurrent group whose earliest process deadline is in the KM
\* window and whose codes meet both the planning and the building subset
\* has exactly two Category-1 rows, one of "Pengarah Perancang Bandar" and
\* one of "Pengarah Bangunan", with the same display reference; no member
\* of a concurrent group has a Category-1 row of its own.
C10_ConcurrentGroupTwoRows ==
    g_pc = "classified" =>
        \A n \in 1..Len(KeptGroups) :
            /\ SerBoth(GroupInfo(KeptGroups[n])) =>
                  /\ Len(Cat1For(BestDisplay(KeptGroups[n]))) = 2
                  /\ {Cat1For(BestDisplay(KeptGroups[n]))[k].tindakan : k \in 1..2} = {tPB, tBGN}
            /\ GroupInfo(KeptGroups[n]).is_ser =>
                  \A k \in 1..Len(KeptGroups[n]), j \in 1..Len(Cat1Individual) :
                      Cat1Individual[j].fail_no /= DisplayOf(KeptGroups[n][k])

\* a concurrent group of two members from two workbooks is classified
C10_Witness ==
    /\ g_pc = "classified"
    /\ \E n \in 1..Len(KeptGroups) :
          /\ SerBoth(GroupInfo(KeptGroups[n]))
          /\ Len(KeptGroups[n]) = 2
          /\ Len(Cat1For(BestDisplay(KeptGroups[n]))) = 2

----------------------------------------------------------------------------
(* Claims on the outstanding-reviewer text *)

\* the tokens of a reviewer text: what stands between the separators , & /
ReviewerTokens(text) ==
    LET cut == SplitAcc(text, 1, <<>>, {",", "&", "/"})
    IN  SelectSeq([n \in 1..Len(cut) |-> Strip(cut[n])], LAMBDA p : p /= <<>>)

\* the token is an abbreviation (or the name) of an internal department
IsAbbreviation(tok) ==
    \E n \in 1..Len(internal_map) : internal_map[n][1] = norm_token(tok)

TitleOfAbbreviation(tok) ==
    internal_map[Min({n \in 1..Len(internal_map) : internal_map[n][1] = norm_token(tok)})][2]

\* internal titles first, then the other tokens in upper case, each list
\* without duplicates in first-seen order
TokenByToken(text) ==
    LET toks == ReviewerTokens(text)
        internal == SelectSeq(toks, IsAbbreviation)
        external == SelectSeq(toks, LAMBDA p : ~IsAbbreviation(p))
    IN  JoinLines(DedupSeq([n \in 1..Len(internal) |-> TitleOfAbbreviation(internal[n])], {})
                    \o DedupSeq([n \in 1..Len(external) |-> upper(external[n])], {}))

\* C11: tindakan_ut maps the reviewer text token by token: a token that is an
\* internal-department abbreviation becomes the title of its department,
\* every other token is kept in upper case, and the output lists the internal
\* titles before the external labels, each without duplicates in first-seen
\* order.
C11_TokenByTokenMapping ==
    t_pc = "mapped" => t_out = TokenByToken(t_text)

----------------------------------------------------------------------------
(* Claims on Category 2 *)

\* the Category-2 row x is the row of the record g
Cat2RowOf(x, g) ==
    /\ x.fail_no = DisplayOf(g)
    /\ x.pemohon = g.pemohon
    /\ x.daerah = g.daerah
    /\ x.tindakan = tindakan_ut(g.belum)
    /\ g.ut_date /= NoDate
    /\ Contains(strftime_dmy(g.ut_date), x.perkara)

InUtWindow(g) ==
    g.ut_date /= NoDate /\ ui.ut_start <= g.ut_date /\ g.ut_date <= ui.ut_end

\* C12: with the technical-review flag off Category 2 is empty; with it on,
\* every Category-2 row is the row of a record whose sheet is in the
\* technical-review-eligible subset, whose technical-review date is non-null
\* and inside [ut_start, ut_end] and whose outstanding-reviewer text is not
\* blank once the placeholders count as blank.
C12_Cat2Gates ==
    g_pc = "classified" =>
        /\ ~ui.ut_enabled => g_cats[2] = <<>>
        /\ ui.ut_enabled =>
              \A n \in 1..Len(g_cats[2]) : \E k \in 1..Len(g_rows) :
                  /\ Cat2RowOf(g_cats[2][n], g_rows[k])
                  /\ g_rows[k].sheet_u \in UT_ALLOWED_SHEETS
                  /\ InUtWindow(g_rows[k])
                  /\ ~is_blankish_text(g_rows[k].belum)

\* Category 2 holds rows while an eligible record inside the window is left
\* out for its placeholder text and another for its null date
C12_Witness ==
    /\ g_pc = "classified" /\ ui.ut_enabled /\ g_cats[2] /= <<>>
    /\ \E k \in 1..Len(g_rows) :
          /\ g_rows[k].sheet_u \in UT_ALLOWED_SHEETS /\ InUtWindow(g_rows[k])
          /\ g_rows[k].belum = <<"-">>
          /\ \A n \in 1..Len(g_cats[2]) : g_cats[2][n].fail_no /= DisplayOf(g_rows[k])
    /\ \E k \in 1..Len(g_rows) :
          /\ g_rows[k].sheet_u \in UT_ALLOWED_SHEETS /\ g_rows[k].ut_date = NoDate
          /\ ~is_blankish_text(g_rows[k].belum)

\* C13: every Category-2 row of a record on the SERENTAK sheet has a declared
\* process-owner code (the trailing letters of the deadline cell) in the
\* allow-list {PB, PKM, BGN}; a SERENTAK-sheet record with another
\* process-owner code produces no Category-2 row.
C13_SerentakOwnerInAllowList ==
    g_pc = "classified" =>
        \A n \in 1..Len(g_cats[2]) : \A k \in 1..Len(g_rows) :
            (g_rows[k].sheet_u = cSERENTAK /\ Cat2RowOf(g_cats[2][n], g_rows[k]))
                => g_rows[k].induk_code \in SERENTAK_UT_ALLOWED_INDUK

----------------------------------------------------------------------------
(* Claims on the final category lists *)

\* the five lists as the category rules emit them, before dedup_list
EmittedNow ==
    Emitted(KeptGroups, [n \in 1..Len(KeptGroups) |-> GroupInfo(KeptGroups[n])],
            ui.km_start, ui.km_end,
            IF ui.ut_enabled THEN ui.ut_start ELSE ui.km_start,
            IF ui.ut_enabled THEN ui.ut_end ELSE ui.km_end, ui.ut_enabled)

Unnumbered(x) == [f \in DOMAIN x \ {"bil"} |-> x[f]]

\* the key of row x of category c starts with the category number, the
\* department label, the normalised reference and the normalised applicant
CompositeKey(x, c) ==
    OccursAt(CatDigit(c) \o BAR \o x.tindakan \o BAR \o osc_norm(x.fail_no) \o BAR
                 \o pemohon_norm(x.pemohon) \o BAR, x.dedup_key, 1)

\* in the final list fin of category c no key occurs twice, and the row that
\* carries a key is the first row emitted with it in emi
FirstOfEachKey(fin, emi, c) ==
    /\ \A i \in 1..Len(fin) : CompositeKey(fin[i], c)
    /\ \A i \in 1..Len(fin), j \in 1..Len(fin) :
          i /= j => fin[i].dedup_key /= fin[j].dedup_key
    /\ \A n \in 1..Len(emi) : \E i \in 1..Len(fin) :
          Unnumbered(fin[i]) =
              emi[Min({m \in 1..Len(emi) : emi[m].dedup_key = emi[n].dedup_key})]

AllFirstOfEachKey(fins, emis) == \A c \in 1..5 : FirstOfEachKey(fins[c], emis[c], c)

\* C14: in each of the five final lists no two rows share the composite
\* deduplication key (category number, department label, normalised display
\* reference, normalised applicant, discriminator), and for every key that
\* was emitted the surviving row is the first one emitted with that key.
C14_FirstEmittedRowSurvives ==
    g_pc = "classified" => AllFirstOfEachKey(g_cats, EmittedNow)

\* two rows that differ were emitted with one key
EmittedTwice(emi) ==
    \E m \in 1..Len(emi), n \in 1..Len(emi) :
        m < n /\ emi[m].dedup_key = emi[n].dedup_key /\ emi[m] /= emi[n]

C14_Witness ==
    /\ g_pc = "classified"
    /\ EmittedTwice(EmittedNow[1])
    /\ Len(g_cats[1]) < Len(EmittedNow[1])

\* the rows of lst are in non-descending order of their keys
Ordered(keys) ==
    \A i \in 1..Len(keys), j \in 1..Len(keys) : i < j => ~KeyLess(keys[j], keys[i])

\* 0 for the urban-planning label, 1 for every other department label
DeptRank(r) == IF OccursAt(tPerancang, r.tindakan, 1) THEN 0 ELSE 1

\* district, then department, then reference
DistrictDeptRef1(lst) ==
    [i \in 1..Len(lst) |-> [n |-> <<DAERAH_ORDER(lst[i].daerah), DeptRank(lst[i])>>,
                            s |-> <<lst[i].fail_no>>]]
DistrictDeptRef(lst) ==
    [i \in 1..Len(lst) |-> [n |-> <<DAERAH_ORDER(lst[i].daerah)>>,
                            s |-> <<lst[i].tindakan, lst[i].fail_no>>]]

\* department, then district, then reference
DeptDistrictRef(lst) ==
    [i \in 1..Len(lst) |-> [n |-> <<DeptRank(lst[i]), DAERAH_ORDER(lst[i].daerah)>>,
                            s |-> <<lst[i].fail_no>>]]
\* district, then reference, then department
DistrictRefDept(lst) ==
    [i \in 1..Len(lst) |-> [n |-> <<DAERAH_ORDER(lst[i].daerah)>>,
                            s |-> <<lst[i].fail_no, lst[i].tindakan>>]]
\* district, then reference
DistrictRef(lst) ==
    [i \in 1..Len(lst) |-> [n |-> <<DAERAH_ORDER(lst[i].daerah)>>,
                            s |-> <<lst[i].fail_no>>]]

\* C15 as stated: in every final list the rows are ordered by district rank
\* (SPU, SPS, SPT, unknown last), then by department label (in Category 1
\* the urban-planning label before the building label), then by the
\* display reference.
C15_DistrictThenDepartment ==
    g_pc = "classified" =>
        /\ Ordered(DistrictDeptRef1(g_cats[1]))
        /\ \A c \in 2..5 : Ordered(DistrictDeptRef(g_cats[c]))

\* C15 amended: Category 1 is ordered by department (urban planning first),
\* then district rank, then display reference; Category 2 by district rank,
\* then display reference, then department label; Categories 3, 4 and 5 by
\* district rank, then display reference.
C15_OrderOfEachList ==
    g_pc = "classified" =>
        /\ Ordered(DeptDistrictRef(g_cats[1]))
        /\ Ordered(DistrictRefDept(g_cats[2]))
        /\ \A c \in 3..5 : Ordered(DistrictRef(g_cats[c]))

\* Category 1 holds a planning row of a later district before a building row
\* of an earlier one, and Category 2 a row before another of the same
\* district whose department label sorts first
C15_Witness ==
    /\ g_pc = "classified"
    /\ \E i \in 1..Len(g_cats[1]), j \in 1..Len(g_cats[1]) :
          /\ i < j
          /\ DeptRank(g_cats[1][i]) = 0 /\ DeptRank(g_cats[1][j]) = 1
          /\ DAERAH_ORDER(g_cats[1][j].daerah) < DAERAH_ORDER(g_cats[1][i].daerah)
    /\ \E i \in 1..Len(g_cats[2]), j \in 1..Len(g_cats[2]) :
          /\ i < j
          /\ g_cats[2][i].daerah = g_cats[2][j].daerah
          /\ StrLess(g_cats[2][j].tindakan, g_cats[2][i].tindakan)

\* C16: in each returned list of length n the sequence numbers (bil) are
\* exactly 1..n in list order: bil is assigned after deduplication and
\* sorting, increases by one from row to row and has no gap.
C16_BilCountsTheFinalOrder ==
    g_pc = "classified" =>
        \A c \in 1..5 : \A i \in 1..Len(g_cats[c]) : g_cats[c][i].bil = i

\* a list of three or more rows, shorter than what was emitted and in
\* another order than the order of emission
C16_Witness ==
    /\ g_pc = "classified"
    /\ Len(g_cats[1]) >= 3
    /\ Len(g_cats[1]) < Len(EmittedNow[1])
    /\ \E i \in 1..Len(g_cats[1]) : Unnumbered(g_cats[1][i]) /= EmittedNow[1][i]
    /\ g_cats[1][Len(g_cats[1])].bil = Len(g_cats[1])

----------------------------------------------------------------------------
(* Claims on the date gates *)

\* row x carries the reference and the applicant columns of record g
RowOf(x, g) ==
    /\ x.fail_no = DisplayOf(g)
    /\ x.pemohon = g.pemohon /\ x.daerah = g.daerah
    /\ x.mukim = g.mukim /\ x.lot = g.lot

InKmWindow(d) == d /= NoDate /\ ui.km_start <= d /\ d <= ui.km_end

\* the rows of Categories 1, 3, 4 and 5
KmRows(cats) == cats[1] \o cats[3] \o cats[4] \o cats[5]

\* record g belongs to a concurrent group of kept
InConcurrentGroup(g, kept) ==
    \E k \in 1..Len(kept) : kept[k].fail_induk = g.fail_induk /\ kept[k].serentak

\* no row of the process-deadline categories for a group or a single record
\* whose process deadline is null or outside the KM window
KmGate(grps, kmrows) ==
    \A n \in 1..Len(grps) :
        IF GroupInfo(grps[n]).is_ser
        THEN InKmWindow(GroupInfo(grps[n]).km_date)
                \/ \A i \in 1..Len(kmrows) : kmrows[i].fail_no /= BestDisplay(grps[n])
        ELSE \A k \in 1..Len(grps[n]) :
                InKmWindow(grps[n][k].km_date)
                    \/ \A i \in 1..Len(kmrows) : ~RowOf(kmrows[i], grps[n][k])

\* no Category-2 row for a record whose technical-review date is null or
\* outside the UT window
UtGate(kept, cat2) ==
    \A k \in 1..Len(kept) :
        InUtWindow(kept[k]) \/ \A i \in 1..Len(cat2) : ~RowOf(cat2[i], kept[k])

\* a record without a process deadline still gets its Category-2 row, and a
\* record without a technical-review date its Category-1 row
OtherGateOpen(kept, cats) ==
    \A k \in 1..Len(kept) :
        /\ ( /\ kept[k].km_date = NoDate
             /\ ui.ut_enabled /\ InUtWindow(kept[k])
             /\ kept[k].sheet_u \in UT_ALLOWED_SHEETS \ {cSERENTAK}
             /\ Strip(upper(kept[k].primary_code)) \in UT_PRIMARY_ALLOWED
             /\ ~is_blankish_text(kept[k].belum)
             /\ ~is_blankish_text(tindakan_ut(kept[k].belum)) )
              => \E i \in 1..Len(cats[2]) : RowOf(cats[2][i], kept[k])
        /\ ( /\ kept[k].ut_date = NoDate
             /\ InKmWindow(kept[k].km_date)
             /\ ~InConcurrentGroup(kept[k], kept)
             /\ kept[k].codes \cap {cPKM, cTKR, cTKR_GUNA} /= {} )
              => \E i \in 1..Len(cats[1]) : RowOf(cats[1][i], kept[k])

\* C17: a record (or concurrent group) whose process-deadline date is null or
\* outside [km_start, km_end] has no row in Categories 1, 3, 4 and 5; a record
\* whose technical-review date is null or outside [ut_start, ut_end] has no
\* row in Category 2; a null date raises no error and leaves the record to
\* the other date gate.
C17_DateGates ==
    g_pc = "classified" =>
        /\ KmGate(KeptGroups, KmRows(g_cats))
        /\ UtGate(KeptRows, g_cats[2])
        /\ OtherGateOpen(KeptRows, g_cats)

\* kept records of each kind are classified: no process deadline but a
\* Category-2 row, no technical-review date but a Category-1 row, a process
\* deadline after the window, a technical-review date after the window
HasRecord(kept, cats) ==
    /\ \E k \in 1..Len(kept) :
          /\ kept[k].km_date = NoDate
          /\ \E i \in 1..Len(cats[2]) : RowOf(cats[2][i], kept[k])
    /\ \E k \in 1..Len(kept) :
          /\ kept[k].ut_date = NoDate /\ ~is_blankish_text(kept[k].belum)
          /\ \E i \in 1..Len(cats[1]) : RowOf(cats[1][i], kept[k])
    /\ \E k \in 1..Len(kept) :
          kept[k].km_date > ui.km_end /\ ~InConcurrentGroup(kept[k], kept)
    /\ \E k \in 1..Len(kept) :
          kept[k].ut_date > ui.ut_end /\ ~is_blankish_text(kept[k].belum)

C17_Witness ==
    g_pc = "classified" /\ ui.ut_enabled /\ HasRecord(KeptRows, g_cats)

----------------------------------------------------------------------------
(* Claims on the parent key *)

\* the segment holds a known code as a token between code separators
HasCodeToken(segment) ==
    \E tok \in Range(SplitAcc(upper(segment), 1, <<>>, CodeSeps)) :
        tok \in Range(KNOWN_CODES)

\* s cut before the last "-" that is followed by a segment with a known code
\* token, s itself when there is none
CutAtLastCodeToken(s) ==
    LET cuts == {i \in 1..Len(s) : s[i] = "-" /\ HasCodeToken(From(s, i + 1))}
    IN  IF cuts = {} THEN s ELSE Upto(s, Max(cuts) - 1)

\* C18: split_fail_induk(raw) is the whitespace-stripped reference with
\* everything from a "-" onward removed, that "-" being the last one whose
\* following segment contains a known code as a token; without such a "-"
\* it is the whole whitespace-stripped string.
C18_ParentCutsAtCodeToken ==
    r_pc = "done" =>
        r_res.induk = CutAtLastCodeToken(Strip(normalize_osc_prefix(r_raw)))

----------------------------------------------------------------------------
(* Claims on the order of the steps of the generate action *)

\* the step is the start of classification
ClassificationStarts == g_pc /= "classified" /\ g_pc' = "classified"

\* C19: in every generate run classification starts only after the agenda
\* is parsed (when agenda filtering is enabled) and after every submitted
\* read task has completed and its rows are merged: the step that classifies
\* works on the whole index and the whole row list.
C19_ClassifyAfterParseAndMerge ==
    [][ClassificationStarts =>
          /\ Len(tasks) = Len(ui.spu_files) + Len(ui.sps_files) + Len(ui.spt_files)
          /\ merged = 1..Len(tasks)
          /\ Len(g_rows) = Len(RowsAsSubmitted)
          /\ (~ui.proceed_without_agenda =>
                agenda_index = <<parse_agenda_docx(ui.agenda_file[1].lines)>>)
          /\ g_cats' = Classified(enrich_rows(g_rows), agenda_index, ui)]_vars

\* four read tasks completed in another order than they were submitted,
\* with the agenda in use
C19_Witness ==
    /\ g_pc = "classified"
    /\ Len(tasks) = 4 /\ merged = 1..4
    /\ agenda_index /= <<>>
    /\ g_rows /= enrich_rows(RowsAsSubmitted)

----------------------------------------------------------------------------
(* Claims on the lot overlap of the fuzzy fallback *)

\* the lot tokens the record shares with block k of the index
SharedLots(k) == lot_tokens(m_row[1].lot) \cap m_agenda[1].blocks[k].lot_set

BothHaveTwoLots(k) ==
    /\ Cardinality(lot_tokens(m_row[1].lot)) >= 2
    /\ Cardinality(m_agenda[1].blocks[k].lot_set) >= 2

\* C20: in the fuzzy fallback, when the record and the agenda block both
\* have at least 2 lot tokens a match needs at least 2 of them in common: a
\* block that shares exactly one token with the record does not match it.
C20_TwoLotsNeedTwoShared ==
    (m_pc = "decided" /\ m_fb) =>
        \E k \in OpenBlocks(m_agenda[1]) :
            /\ m_agenda[1].blocks[k].pemohon_key = pemohon_norm(m_row[1].pemohon)
            /\ SharedLots(k) /= {}
            /\ BothHaveTwoLots(k) => Cardinality(SharedLots(k)) >= 2

\* a record of the applicant of an agenda item, two lots each, one shared:
\* the fallback does not match
C20_Witness ==
    /\ m_pc = "decided" /\ m_agenda /= <<>> /\ ~m_fb
    /\ m_row[1].sheet_u \in AGENDA_FILTER_SHEETS
    /\ \E k \in OpenBlocks(m_agenda[1]) :
          /\ m_agenda[1].blocks[k].pemohon_key = pemohon_norm(m_row[1].pemohon)
          /\ BothHaveTwoLots(k)
          /\ Cardinality(SharedLots(k)) = 1

----------------------------------------------------------------------------
(* Claims on a single shared lot token *)

\* block k of the index has the applicant of the record and shares exactly
\* one lot token with it
OneSharedLot(k) ==
    /\ m_agenda[1].blocks[k].pemohon_key /= <<>>
    /\ m_agenda[1].blocks[k].pemohon_key = pemohon_norm(m_row[1].pemohon)
    /\ Cardinality(SharedLots(k)) = 1

EitherHasTwoLots(k) ==
    \/ Cardinality(lot_tokens(m_row[1].lot)) >= 2
    \/ Cardinality(m_agenda[1].blocks[k].lot_set) >= 2

\* the permit-type guard of block k lets the record through
CodesAgree(k) ==
    \/ m_agenda[1].blocks[k].codes = {}
    \/ m_row[1].codes \cap m_agenda[1].blocks[k].codes /= {}

\* C21 as stated: a block that shares a single lot token with the record
\* does not match it in the fallback as soon as the record or the block has
\* 2 or more lot tokens
C21_SingleOverlapEitherSide ==
    (m_pc = "decided" /\ m_agenda /= <<>>) =>
        \A k \in OpenBlocks(m_agenda[1]) :
            (OneSharedLot(k) /\ EitherHasTwoLots(k))
                => ~FallbackBlockMatches(m_row[1], m_agenda[1].blocks[k])

\* C21, amended: a block that shares a single lot token with the record does
\* not match it in the fallback when the record and the block both have 2 or
\* more lot tokens; when one of them has a single lot token, the shared token
\* is enough and a filtered record of the block's applicant and permit type
\* is suppressed
C21_SingleOverlapBothSides ==
    (m_pc = "decided" /\ m_agenda /= <<>>) =>
        \A k \in OpenBlocks(m_agenda[1]) :
            OneSharedLot(k) =>
                /\ BothHaveTwoLots(k)
                      => ~FallbackBlockMatches(m_row[1], m_agenda[1].blocks[k])
                /\ (~BothHaveTwoLots(k) /\ CodesAgree(k)
                       /\ m_row[1].sheet_u \in AGENDA_FILTER_SHEETS)
                      => (m_fb /\ (m_enabled => ~m_kept))

\* a record with the single lot 1234 suppressed by the fallback alone: the
\* item of its applicant has the lots 1234 and 5678
C21_Witness ==
    /\ Filtered /\ m_fb /\ ~m_kept
    /\ ~TailTier /\ ~SeriesTier /\ ~HeadTier
    /\ Cardinality(lot_tokens(m_row[1].lot)) = 1
    /\ \E k \in OpenBlocks(m_agenda[1]) :
          /\ OneSharedLot(k)
          /\ Cardinality(m_agenda[1].blocks[k].lot_set) >= 2

----------------------------------------------------------------------------
(* Claims on the code subsets of the concurrent groups *)

\* the summary gi is of a concurrent group whose earliest process deadline
\* is in the KM window
SerInKmWindow(gi) == gi.is_ser /\ InKmWindow(gi.km_date)

\* category list cat has a row with the display reference of group grp
HasGroupRow(cat, grp) == \E i \in 1..Len(cat) : cat[i].fail_no = BestDisplay(grp)

\* a concurrent group in the KM window has a row in each of Categories 5, 3
\* and 4 whose codes its union of codes meets
RoutedByCodes(grp, gi, cats) ==
    SerInKmWindow(gi) =>
        /\ gi.union_codes \cap {cPS, cSB, cCT, c124A, c204D} /= {} => HasGroupRow(cats[5], grp)
        /\ gi.union_codes \cap {cKTUP, cLJUP, cJP} /= {} => HasGroupRow(cats[3], grp)
        /\ gi.union_codes \cap {cPL} /= {} => HasGroupRow(cats[4], grp)

\* C22: a concurrent group whose earliest process deadline is in the KM
\* window has a Category-5 row when its union of codes contains PS, SB, CT,
\* 124A or 204D, a Category-3 row when it contains KTUP, LJUP or JP, and a
\* Category-4 row when it contains PL.
C22_ConcurrentGroupsByCodeSubset ==
    g_pc = "classified" =>
        \A n \in 1..Len(KeptGroups) :
            RoutedByCodes(KeptGroups[n], GroupInfo(KeptGroups[n]), g_cats)

\* the categories among 1, 3, 4 and 5 in which a concurrent group with the
\* summary gi has a row when c is its only code
CategoriesOfCode(grp, gi, c) ==
    {k \in {1} : Cat1Of(grp, [gi EXCEPT !.union_codes = {c}], ui.km_start, ui.km_end) /= <<>>}
        \cup {k \in {3} : Cat3Of(grp, [gi EXCEPT !.union_codes = {c}], ui.km_start, ui.km_end) /= <<>>}
        \cup {k \in {4} : Cat4Of(grp, [gi EXCEPT !.union_codes = {c}], ui.km_start, ui.km_end) /= <<>>}
        \cup {k \in {5} : Cat5Of(grp, [gi EXCEPT !.union_codes = {c}], ui.km_start, ui.km_end) /= <<>>}

\* the categories among 1, 3, 4 and 5 in which group grp has a row
CategoriesOfGroup(grp, cats) == {k \in {1, 3, 4, 5} : HasGroupRow(cats[k], grp)}

OneCategoryPerCode(grp, gi, cats) ==
    SerInKmWindow(gi) =>
        /\ \A c \in gi.union_codes : Cardinality(CategoriesOfCode(grp, gi, c)) <= 1
        /\ Cardinality(gi.union_codes) = 1 => Cardinality(CategoriesOfGroup(grp, cats)) <= 1

\* C23: for a concurrent group in the KM window no code of its union of
\* codes gives rows in two of the Categories 1, 3, 4 and 5; a group with a
\* single code has rows in one of them at most.
C23_CodeSubsetsDisjoint ==
    g_pc = "classified" =>
        \A n \in 1..Len(KeptGroups) :
            OneCategoryPerCode(KeptGroups[n], GroupInfo(KeptGroups[n]), g_cats)

----------------------------------------------------------------------------
(* Claims on the parenthetical notes of the display reference *)

\* the positions of the "(" of the parenthetical notes of s
NoteStarts(s) == {i \in 1..Len(s) : CloseOf(s, i) > 0}

\* the k-th smallest element of the set P of numbers
Nth(P, k) == CHOOSE i \in P : Cardinality({x \in P : x < i}) = k - 1

\* the parenthetical notes of s in their order, blanks removed
NotesAt(s, P) ==
    [k \in 1..Cardinality(P) |-> StripAllWS(SubSeq(s, Nth(P, k), CloseOf(s, Nth(P, k))))]

NotesOf(s) == NotesAt(s, NoteStarts(s))

\* C24 as stated: the display reference holds the parenthetical notes of
\* the reference without those that hold a voided/superseded keyword,
\* whatever the case of the letters; each note is judged on its own and the
\* other notes are kept
C24_VoidedNotesDropped ==
    (r_pc = "done" /\ ~is_blankish_text(r_raw)) =>
        NotesOf(r_res.disp) = SelectSeq(NotesOf(r_raw), LAMBDA g : ~IsVoidNote(g))

\* C24, amended: format_fail_no_display drops no parenthetical note: the
\* display reference holds every note of the reference, in the same order,
\* whatever words it contains; only blanks change
C24_EveryNoteKept ==
    (r_pc = "done" /\ ~is_blankish_text(r_raw)) =>
        NotesOf(r_res.disp) = NotesOf(r_raw)

\* the display form of a reference with the notes "(JILID 2)" and "(TG)"
\* holds both
C24_Witness ==
    /\ r_pc = "done"
    /\ r_edits = 2
    /\ Contains(<<"(", "J", "I", "L", "I", "D", " ", "2", ")">>, r_raw) /\ Contains(<<"(", "T", "G", ")">>, r_raw)
    /\ Contains(<<"(", "J", "I", "L", "I", "D", " ", "2", ")">>, r_res.disp) /\ Contains(<<"(", "T", "G", ")">>, r_res.disp)

----------------------------------------------------------------------------
(* Claims on the tail of a reference *)

\* s reads <prefix>/<digits>/<series>/<tail><suffix>: b and c are the
\* positions of the second and third "/", the tail has 3 to 5 digits
WellFormedAt(s, b, c) ==
    /\ Len(s) >= 5 /\ SubSeq(s, 1, 4) \in {cMBSP, cMBPS, cMPSP} /\ s[5] = "/"
    /\ b > 6 /\ s[b] = "/" /\ \A i \in 6..(b - 1) : s[i] \in Digits
    /\ c > b + 1 /\ c < Len(s) /\ s[c] = "/"
    /\ \A i \in (b + 1)..(c - 1) : s[i] \in UpperSet \cup Digits \cup {"-"}
    /\ RunLen(s, c + 1, Digits) \in 3..5

WellFormedRef(s) == \E b \in 1..Len(s), c \in 1..Len(s) : WellFormedAt(s, b, c)

\* the tail segment of a well-formed reference
WellFormedTail(s) ==
    LET c == CHOOSE c \in 1..Len(s) : \E b \in 1..Len(s) : WellFormedAt(s, b, c)
    IN  SubSeq(s, c + 1, c + RunLen(s, c + 1, Digits))

\* C25: for a well-formed reference (prefix / numeric segment / series
\* token / tail of 3 to 5 digits, optional suffix) extract_tail_only returns
\* the tail that the agenda parser extracts from the same text, so that a
\* record identical to an agenda reference has its tail in the tail set of
\* the index.
C25_SameTailAsAgenda ==
    (r_pc = "done" /\ WellFormedRef(r_raw)) =>
        /\ r_res.tail = WellFormedTail(r_raw)
        /\ r_res.agenda_tails = {r_res.tail}

----------------------------------------------------------------------------
(* Claims on the parent key of the sub-filings of one application *)

\* the base identifier of a well-formed reference: up to the end of its tail
BaseOf(s) ==
    LET c == CHOOSE c \in 1..Len(s) : \E b \in 1..Len(s) : WellFormedAt(s, b, c)
    IN  Upto(s, c + RunLen(s, c + 1, Digits))

\* s is a base identifier followed by "-" and a permit-type suffix
HasDashSuffix(s) ==
    /\ WellFormedRef(s)
    /\ Len(BaseOf(s)) < Len(s) /\ s[Len(BaseOf(s)) + 1] = "-"

\* C26: a reference <base>-<suffix> has the parent key of the reference
\* <base>-PKM of the same base identifier, whatever codes and separators
\* its permit-type suffix contains (as "-BGN-EVCB"), so that build_categories
\* places both in one parent group.
C26_SameParentForEverySuffix ==
    (r_pc = "done" /\ r_raw = r_orig /\ HasDashSuffix(r_raw)) =>
        r_res.induk = split_fail_induk(MkRef(BaseOf(r_raw), cPKM))

----------------------------------------------------------------------------
(* Claims on the matching key and on the codes of the suffix *)

\* C27: the matching key is idempotent: osc_norm(osc_norm(x)) = osc_norm(x)
\* for every reference string x.
C27_KeyIdempotent ==
    r_pc = "done" => r_res.key2 = r_res.key

\* the permit-type suffix of a reference <base>-<suffix>
SuffixOf(s) == From(s, Len(BaseOf(s)) + 2)

\* C28: extract_codes of a reference <head>/<tail>-c, c a code of the
\* known-code vocabulary (the hyphenated TKR-GUNA included), on a sheet that
\* implies no code (SERENTAK) contains c, and every set that extract_codes
\* returns is a subset of the vocabulary.
C28_SuffixCodeExtracted ==
    r_pc = "done" =>
        /\ r_res.codes \subseteq Range(KNOWN_CODES)
        /\ (r_raw = r_orig /\ r_sheet = cSERENTAK /\ SuffixOf(r_raw) \in Range(KNOWN_CODES))
              => SuffixOf(r_raw) \in r_res.codes

----------------------------------------------------------------------------
(* Claims on the lines of the agenda text *)

\* line k of the text lies in the block of a PTJ header: the last header
\* line at or before it names the exempt series
InPtjBlock(lines, k) ==
    /\ \E h \in HeaderIdx(lines) : h <= k
    /\ IsPtjHeader(Strip(lines[Max({h \in HeaderIdx(lines) : h <= k})]),
                   upper(Strip(lines[Max({h \in HeaderIdx(lines) : h <= k})])))

\* the tail and the series+tail key of every reference of the line are in
\* the sets of index a
LineIndexed(line, a) ==
    \A m \in Range(OscHeadFindAll(line)) :
        /\ m[3] \in a.tails_all
        /\ m[2] \o <<"|">> \o m[3] \in a.series_tail_all

\* C29: every well-formed reference of the agenda text outside a PTJ block,
\* the text before the first item header included, has its tail in the tail
\* set and its series+tail key in the series+tail set of the index; the
\* blocks together hold every line of the text.
C29_NoReferenceLost ==
    m_agenda /= <<>> =>
        /\ \A k \in 1..Len(m_doc) :
              ~InPtjBlock(m_doc, k) => LineIndexed(m_doc[k], m_agenda[1])
        /\ Flat(split_into_blocks(m_doc)) = m_doc


----------------------------------------------------------------------------
(* Claims on the running flag of the generate action *)

\* the action ended after an input check called st.stop()
EndedByStop == g_pc = "ended" /\ ~InputsValid(ui)

\* the action ended after parse_agenda_docx or a read task raised
EndedByException ==
    /\ g_pc = "ended" /\ InputsValid(ui)
    /\ \/ AgendaRejected(ui)
       \/ \E t \in (1..Len(tasks)) \ merged : ~tasks[t].file.zip_ok

\* C30: whenever the generate action has set the running flag, the action
\* ends on every path (the document built, an input check that stops the
\* script, an exception of parsing or reading) and the flag is false from
\* then on, so the button does not stay disabled
C30_RunningAlwaysReset == running ~> [](g_pc = "ended" /\ ~running)

C30_Witness == EndedByStop /\ ~running /\ ui.spu_files = <<>>

====
